---- MODULE Spec2Model ----
(***************************************************************************)
(* FinancialDataExtractor (app/financial_data.py) and the LLM service it   *)
(* calls (app/llm_service.py): the LLM extraction path with its fallback   *)
(* chain, and the regex path it falls back to.                             *)
(*                                                                         *)
(* Text is modelled as a sequence of tokens separated by one blank:        *)
(*   num    a standalone run of digits (\b-delimited), value n             *)
(*   label  a line-item label, text s                                      *)
(*   word   other prose without digits or braces, text s                   *)
(*   punct  a punctuation character, text s                                *)
(*   filler a long run of prose of n characters                            *)
(* Python values that can be both regex results and decoded JSON are       *)
(* tagged records: t is the Python type, the other fields the content.     *)
(***************************************************************************)
EXTENDS Integers, Sequences, FiniteSets, TLC

(* ------------------------------------------------------------------ *)
(* Python values                                                       *)
(* ------------------------------------------------------------------ *)
\* every Python value has the same shape: its type t and, by type, the
\* elements of a list, the entries of a dict or the number
PyList(s) == [t |-> "list", seq |-> s,    map |-> <<>>, num |-> 0]
PyDict(f) == [t |-> "dict", seq |-> <<>>, map |-> f,    num |-> 0]
PyNum(n)  == [t |-> "num",  seq |-> <<>>, map |-> <<>>, num |-> n]
PyNone    == [t |-> "none", seq |-> <<>>, map |-> <<>>, num |-> 0]

\* the empty dict {} : a function with empty domain
EmptyDict == PyDict(<<>>)

\* dictionary keys for years: the regex path uses ints, JSON uses strings
IntKey(y) == <<"int", y>>
StrKey(y) == <<"str", y>>

\* the "no value" of Optional[float]; extracted values are never negative
None == -1

(* ------------------------------------------------------------------ *)
(* Text tokens                                                         *)
(* ------------------------------------------------------------------ *)
Num(n)    == [k |-> "num",    s |-> "",  n |-> n]
Label(s)  == [k |-> "label",  s |-> s,   n |-> 0]
Word(s)   == [k |-> "word",   s |-> s,   n |-> 0]
Punct(s)  == [k |-> "punct",  s |-> s,   n |-> 0]
Filler(n) == [k |-> "filler", s |-> "",  n |-> n]

\* number of decimal digits of n
Digits(n) == Cardinality({p \in {1, 10, 100, 1000, 10000, 100000} : p <= n \/ p = 1})

\* number of characters of a token
TokLen(tok) ==
    CASE tok.k = "num"    -> Digits(tok.n)
      [] tok.k = "filler" -> tok.n
      [] OTHER            -> Len(tok.s)

\* character offset at which token i starts (tokens are separated by one blank)
TokStart(text, i) ==
    LET start[j \in 1..i] ==
            IF j = 1 THEN 0 ELSE start[j - 1] + TokLen(text[j - 1]) + 1
    IN  start[i]

TokEnd(text, i) == TokStart(text, i) + TokLen(text[i])

TextLen(text) == IF text = <<>> THEN 0 ELSE TokEnd(text, Len(text))

Max(a, b) == IF a >= b THEN a ELSE b
Min(a, b) == IF a <= b THEN a ELSE b

\* sorted(list(set(...))): the elements of S in ascending order
SetToSortedSeq(S) ==
    [i \in 1..Cardinality(S) |->
        CHOOSE x \in S : Cardinality({y \in S : y < x}) = i - 1]

SeqToSet(s) == {s[i] : i \in DOMAIN s}

(* ------------------------------------------------------------------ *)
(* _extract_years                                                      *)
(* ------------------------------------------------------------------ *)
\* r'\b(19|20)\d{2}\b' matches a standalone four-digit token 19xx or 20xx
YearPatternMatches(tok) == tok.k = "num" /\ tok.n >= 1900 /\ tok.n <= 2099

\* re.findall with one capturing group yields the group, here the century
\* prefix "19" or "20", which int() turns into 19 or 20
FindallYear(tok) == tok.n \div 100

\* mutant: a text without years is given the current year
_extract_years_DefaultsToCurrentYear(text, current_year) ==
    LET found    == {FindallYear(text[i]) :
                        i \in {j \in DOMAIN text : YearPatternMatches(text[j])}}
        filtered == {y \in found : y <= current_year}
    IN  IF filtered = {} THEN <<current_year>> ELSE SetToSortedSeq(filtered)

_extract_years(text, current_year) ==
    LET found    == {FindallYear(text[i]) :
                        i \in {j \in DOMAIN text : YearPatternMatches(text[j])}}
        filtered == {y \in found : y <= current_year}
    IN  SetToSortedSeq(filtered)

(* ------------------------------------------------------------------ *)
(* _get_year_context and _extract_value_for_item                       *)
(* ------------------------------------------------------------------ *)
ContextRadius == 500

\* index of the first standalone occurrence of the year, 0 when there is none
FirstYearIndex(text, year) ==
    LET hits == {i \in DOMAIN text : text[i].k = "num" /\ text[i].n = year}
    IN  IF hits = {} THEN 0 ELSE CHOOSE i \in hits : \A j \in hits : i <= j

\* the tokens lying wholly inside the character window around the first
\* occurrence of the year: <<>> stands for None (year not found)
_get_year_context(text, year) ==
    LET m == FirstYearIndex(text, year)
    IN  IF m = 0 THEN <<>>
        ELSE LET start == Max(0, TokStart(text, m) - ContextRadius)
                 end   == Min(TextLen(text), TokEnd(text, m) + ContextRadius)
                 inside == {i \in DOMAIN text :
                               TokStart(text, i) >= start /\ TokEnd(text, i) <= end}
                 lo == CHOOSE i \in inside : \A j \in inside : i <= j
                 hi == CHOOSE i \in inside : \A j \in inside : i >= j
             IN  SubSeq(text, lo, hi)

\* the item names that a label text ends with: the pattern is unanchored on
\* the left, so "Revenue" also matches at the end of "Total Revenue"
EndsWith(labelText) ==
    IF labelText \in {"Total Revenue", "Service Revenue"}
    THEN {labelText, "Revenue"} ELSE {labelText}

\* rf'{re.escape(item)}\s+(\d+(?:\.\d+)?)' searched in a context: the first
\* place where the item text is followed by blanks and a number
SearchItem(context, item) ==
    LET hits == {i \in DOMAIN context :
                    /\ context[i].k = "label"
                    /\ item \in EndsWith(context[i].s)
                    /\ i + 1 \in DOMAIN context
                    /\ context[i + 1].k = "num"}
    IN  IF hits = {} THEN None
        ELSE context[(CHOOSE i \in hits : \A j \in hits : i <= j) + 1].n

_extract_value_for_item(text, item, year) ==
    LET context == _get_year_context(text, year)
    IN  IF context = <<>> THEN None ELSE SearchItem(context, item)

(* ------------------------------------------------------------------ *)
(* Section builders                                                    *)
(* ------------------------------------------------------------------ *)
BalanceSheetTaxonomy ==
    [c \in {"Current Assets", "Non-Current Assets", "Current Liabilities",
            "Non-Current Liabilities", "Equity"} |->
        CASE c = "Current Assets" ->
                {"Cash and Cash Equivalents", "Accounts Receivable", "Inventory",
                 "Prepaid Expenses", "Total Current Assets"}
          [] c = "Non-Current Assets" ->
                {"Property, Plant and Equipment", "Intangible Assets",
                 "Investments", "Total Non-Current Assets"}
          [] c = "Current Liabilities" ->
                {"Accounts Payable", "Short-term Debt", "Accrued Expenses",
                 "Total Current Liabilities"}
          [] c = "Non-Current Liabilities" ->
                {"Long-term Debt", "Deferred Tax Liabilities",
                 "Total Non-Current Liabilities"}
          [] OTHER ->
                {"Common Stock", "Retained Earnings", "Total Equity"}]

IncomeStatementTaxonomy ==
    [c \in {"Revenue", "Expenses", "Profit"} |->
        CASE c = "Revenue" ->
                {"Revenue", "Sales", "Service Revenue", "Total Revenue"}
          [] c = "Expenses" ->
                {"Cost of Goods Sold", "Operating Expenses",
                 "Selling, General and Administrative",
                 "Research and Development", "Depreciation and Amortization",
                 "Interest Expense", "Income Tax Expense", "Total Expenses"}
          [] OTHER ->
                {"Gross Profit", "Operating Income", "Income Before Tax",
                 "Net Income"}]

CashFlowTaxonomy ==
    [c \in {"Operating Activities", "Investing Activities",
            "Financing Activities"} |->
        CASE c = "Operating Activities" ->
                {"Net Income", "Depreciation and Amortization",
                 "Changes in Working Capital",
                 "Net Cash from Operating Activities"}
          [] c = "Investing Activities" ->
                {"Capital Expenditures", "Acquisitions", "Investments",
                 "Net Cash from Investing Activities"}
          [] OTHER ->
                {"Debt Issuance", "Debt Repayment", "Dividends Paid",
                 "Stock Repurchase", "Net Cash from Financing Activities"}]

\* one builder loop body: every category of the taxonomy is created empty;
\* when the year has a context, each item found is stored, an item not
\* found (None) is not stored. Each _extract_value_for_item call of the
\* loop recomputes the same context, so the search runs on it directly
BuildYear(text, taxonomy, year) ==
    LET context == _get_year_context(text, year)
    IN  [c \in DOMAIN taxonomy |->
            IF context = <<>>
            THEN <<>>
            ELSE [i \in {j \in taxonomy[c] : SearchItem(context, j) # None} |->
                           SearchItem(context, i)]]

\* mutant: a year without context gets no entry
BuildSection_SkipsYearsWithoutContext(text, taxonomy, years) ==
    PyDict([yk \in {IntKey(y) : y \in {z \in SeqToSet(years) :
                                          _get_year_context(text, z) # <<>>}} |->
                     BuildYear(text, taxonomy, yk[2])])

BuildSection(text, taxonomy, years) ==
    PyDict([yk \in {IntKey(y) : y \in SeqToSet(years)} |->
                     BuildYear(text, taxonomy, yk[2])])

_extract_balance_sheet_data(text, years) ==
    BuildSection(text, BalanceSheetTaxonomy, years)

_extract_income_statement_data(text, years) ==
    BuildSection(text, IncomeStatementTaxonomy, years)

_extract_cash_flow_data(text, years) ==
    BuildSection(text, CashFlowTaxonomy, years)

(* ------------------------------------------------------------------ *)
(* Ratio engine: a quotient of floats is kept as a reduced fraction    *)
(* ------------------------------------------------------------------ *)
Abs(x) == IF x < 0 THEN -x ELSE x

GCD(a, b) ==
    LET gcd[x \in 0..Max(a, b), y \in 0..Max(a, b)] ==
            IF y = 0 THEN x ELSE gcd[y, x % y]
    IN  gcd[a, b]

\* n / d for d # 0
Quot(n, d) ==
    LET g == GCD(Abs(n), Abs(d))
        sg == IF d < 0 THEN -1 ELSE 1
    IN  <<sg * (n \div g), sg * (d \div g)>>

\* walks the keys; None when a key is missing
_get_nested_value(data, keys) ==
    IF keys[1] \notin DOMAIN data THEN None
    ELSE IF keys[2] \notin DOMAIN data[keys[1]] THEN None
    ELSE data[keys[1]][keys[2]]

\* self.<section>.get(year, {})
SectionOfYear(section, year) ==
    IF section.t = "dict" /\ IntKey(year) \in DOMAIN section.map
    THEN section.map[IntKey(year)] ELSE <<>>

RatiosOfYear(balance_sheet, income_statement) ==
    LET current_assets ==
            _get_nested_value(balance_sheet, <<"Current Assets", "Total Current Assets">>)
        current_liabilities ==
            _get_nested_value(balance_sheet, <<"Current Liabilities", "Total Current Liabilities">>)
        inventory ==
            _get_nested_value(balance_sheet, <<"Current Assets", "Inventory">>)
        non_current_liabilities ==
            _get_nested_value(balance_sheet, <<"Non-Current Liabilities", "Total Non-Current Liabilities">>)
        total_equity ==
            _get_nested_value(balance_sheet, <<"Equity", "Total Equity">>)
        non_current_assets ==
            _get_nested_value(balance_sheet, <<"Non-Current Assets", "Total Non-Current Assets">>)
        net_income ==
            _get_nested_value(income_statement, <<"Profit", "Net Income">>)
        total_revenue ==
            _get_nested_value(income_statement, <<"Revenue", "Total Revenue">>)
        total_liabilities ==
            (IF current_liabilities # None THEN current_liabilities ELSE 0)
            + (IF non_current_liabilities # None THEN non_current_liabilities ELSE 0)
        total_assets ==
            (IF current_assets # None THEN current_assets ELSE 0)
            + (IF non_current_assets # None THEN non_current_assets ELSE 0)
        liquidity ==
            [r \in {n \in {"Current Ratio", "Quick Ratio"} :
                      /\ current_assets # None
                      /\ current_liabilities # None
                      /\ current_liabilities # 0
                      /\ (n = "Quick Ratio" => inventory # None)} |->
                IF r = "Current Ratio"
                THEN Quot(current_assets, current_liabilities)
                ELSE Quot(current_assets - inventory, current_liabilities)]
        solvency ==
            [r \in {n \in {"Debt-to-Equity Ratio", "Debt-to-Assets Ratio"} :
                      /\ total_liabilities > 0
                      /\ (n = "Debt-to-Equity Ratio" =>
                             total_equity # None /\ total_equity # 0)
                      /\ (n = "Debt-to-Assets Ratio" => total_assets > 0)} |->
                IF r = "Debt-to-Equity Ratio"
                THEN Quot(total_liabilities, total_equity)
                ELSE Quot(total_liabilities, total_assets)]
        profitability ==
            [r \in {n \in {"Net Profit Margin", "Return on Assets", "Return on Equity"} :
                      /\ net_income # None
                      /\ (n = "Net Profit Margin" =>
                             total_revenue # None /\ total_revenue # 0)
                      /\ (n = "Return on Assets" => total_assets > 0)
                      /\ (n = "Return on Equity" =>
                             total_equity # None /\ total_equity # 0)} |->
                CASE r = "Net Profit Margin" -> Quot(net_income, total_revenue)
                  [] r = "Return on Assets"  -> Quot(net_income, total_assets)
                  [] OTHER                   -> Quot(net_income, total_equity)]
    IN  [c \in {"Liquidity", "Solvency", "Profitability"} |->
            CASE c = "Liquidity" -> liquidity
              [] c = "Solvency"  -> solvency
              [] OTHER           -> profitability]

_calculate_financial_ratios(years, balance_sheet_data, income_statement_data) ==
    PyDict([yk \in {IntKey(y) : y \in SeqToSet(years)} |->
                     RatiosOfYear(SectionOfYear(balance_sheet_data, yk[2]),
                                  SectionOfYear(income_statement_data, yk[2]))])

(* ------------------------------------------------------------------ *)
(* _calculate_ratio: one ratio of one year; the value is a fraction,   *)
(* <<>> stands for None                                                *)
(* ------------------------------------------------------------------ *)
\* same walk as _get_nested_value
_get_value_from_dict(data_dict, keys) == _get_nested_value(data_dict, keys)

\* mutant: Current Ratio is 0 when Total Current Liabilities is 0
_calculate_ratio_ZeroForUndefined(balance_sheet_data, income_statement_data, ratio_name, year) ==
    LET balance_sheet == SectionOfYear(balance_sheet_data, year)
        current_assets ==
            _get_value_from_dict(balance_sheet, <<"Current Assets", "Total Current Assets">>)
        current_liabilities ==
            _get_value_from_dict(balance_sheet, <<"Current Liabilities", "Total Current Liabilities">>)
    IN  IF ratio_name = "Current Ratio" /\ current_assets # None
           /\ current_liabilities # None
        THEN IF current_liabilities = 0 THEN <<0, 1>>
             ELSE Quot(current_assets, current_liabilities)
        ELSE <<>>

\* "total_liabilities += ..." on a None raises TypeError, which the except
\* clause of lines 820-823 turns into None; (a / b) * 100 is kept as the
\* fraction 100a / b
_calculate_ratio(balance_sheet_data, income_statement_data, ratio_name, year) ==
    LET balance_sheet == SectionOfYear(balance_sheet_data, year)
        income_statement == SectionOfYear(income_statement_data, year)
        current_assets ==
            _get_value_from_dict(balance_sheet, <<"Current Assets", "Total Current Assets">>)
        current_liabilities ==
            _get_value_from_dict(balance_sheet, <<"Current Liabilities", "Total Current Liabilities">>)
        inventory ==
            _get_value_from_dict(balance_sheet, <<"Current Assets", "Inventory">>)
        non_current_liabilities ==
            _get_value_from_dict(balance_sheet, <<"Non-Current Liabilities", "Total Non-Current Liabilities">>)
        total_equity ==
            _get_value_from_dict(balance_sheet, <<"Equity", "Total Equity">>)
        net_income ==
            _get_value_from_dict(income_statement, <<"Profit", "Net Income">>)
        total_revenue ==
            _get_value_from_dict(income_statement, <<"Revenue", "Total Revenue">>)
    IN  CASE ratio_name = "Current Ratio" ->
               IF current_assets # None /\ current_liabilities # None
                  /\ current_liabilities # 0
               THEN Quot(current_assets, current_liabilities) ELSE <<>>
          [] ratio_name = "Quick Ratio" ->
               IF current_assets # None /\ inventory # None
                  /\ current_liabilities # None /\ current_liabilities # 0
               THEN Quot(current_assets - inventory, current_liabilities) ELSE <<>>
          [] ratio_name = "Debt-to-Equity Ratio" ->
               IF current_liabilities = None THEN <<>>
               ELSE IF total_equity # None /\ total_equity # 0
               THEN Quot(current_liabilities
                           + (IF non_current_liabilities # None
                              THEN non_current_liabilities ELSE 0),
                         total_equity)
               ELSE <<>>
          [] ratio_name = "Net Profit Margin" ->
               IF net_income # None /\ total_revenue # None /\ total_revenue # 0
               THEN Quot(net_income * 100, total_revenue) ELSE <<>>
          [] OTHER -> <<>>

(* ------------------------------------------------------------------ *)
(* extract_all_data: the five fields it assigns and the dict it returns *)
(* ------------------------------------------------------------------ *)
extract_all_data(text, current_year) ==
    LET ys == _extract_years(text, current_year)
        bs == _extract_balance_sheet_data(text, ys)
        is == _extract_income_statement_data(text, ys)
        cf == _extract_cash_flow_data(text, ys)
        rs == _calculate_financial_ratios(ys, bs, is)
    IN  [years            |-> PyList(ys),
         balance_sheet    |-> bs,
         income_statement |-> is,
         cash_flow        |-> cf,
         ratios           |-> rs]

\* the statements of extract_all_data one by one on the fields f of the
\* instance: each reads the fields as the statements before it left them
AssignYears(f, text, current_year) ==
    [f EXCEPT !.years = PyList(_extract_years(text, current_year))]

AssignBalanceSheet(f, text) ==
    [f EXCEPT !.balance_sheet_data = _extract_balance_sheet_data(text, f.years.seq)]

AssignIncomeStatement(f, text) ==
    [f EXCEPT !.income_statement_data = _extract_income_statement_data(text, f.years.seq)]

AssignCashFlow(f, text) ==
    [f EXCEPT !.cash_flow_data = _extract_cash_flow_data(text, f.years.seq)]

AssignRatios(f) ==
    [f EXCEPT !.ratios = _calculate_financial_ratios(f.years.seq, f.balance_sheet_data,
                                                     f.income_statement_data)]

\* mutant: the ratios are calculated first, from the fields an earlier call left
FieldsAfterExtractAllData_StaleRatios(f, text, current_year) ==
    CHOOSE f5 \in {AssignCashFlow(f4, text) :
              f4 \in {AssignIncomeStatement(f3, text) :
                f3 \in {AssignBalanceSheet(f2, text) :
                  f2 \in {AssignYears(f1, text, current_year) :
                    f1 \in {AssignRatios(f)}}}}} : TRUE

\* the fields of the instance when extract_all_data returns, f being the
\* fields it had when the call began
FieldsAfterExtractAllData(f, text, current_year) ==
    CHOOSE f5 \in {AssignRatios(f4) :
              f4 \in {AssignCashFlow(f3, text) :
                f3 \in {AssignIncomeStatement(f2, text) :
                  f2 \in {AssignBalanceSheet(f1, text) :
                    f1 \in {AssignYears(f, text, current_year)}}}}} : TRUE

\* lines 294-303: the dict built from the fields and returned
ReturnedDict(f) ==
    [key \in {"years", "balance_sheet", "income_statement", "cash_flow", "ratios"} |->
        CASE key = "years"            -> f.years
          [] key = "balance_sheet"    -> f.balance_sheet_data
          [] key = "income_statement" -> f.income_statement_data
          [] key = "cash_flow"        -> f.cash_flow_data
          [] OTHER                    -> f.ratios]

(* ------------------------------------------------------------------ *)
(* LLM responses: a sequence of tokens                                 *)
(*   lb, rb  a brace of the top nesting level of the text              *)
(*   w       prose without braces                                      *)
(*   m       one well-formed member "key": value of a JSON object,     *)
(*           with its separating comma; braces and brackets inside     *)
(*           the value belong to the member                            *)
(* ------------------------------------------------------------------ *)
LB           == [k |-> "lb", key |-> "", val |-> PyNone]
RB           == [k |-> "rb", key |-> "", val |-> PyNone]
Prose        == [k |-> "w",  key |-> "", val |-> PyNone]
Member(a, x) == [k |-> "m",  key |-> a,  val |-> x]

\* re.search(r'({[\s\S]*})', response): greedy, from the first "{" to the
\* last "}" of the response; <<>> when there is no match
JsonMatch(response) ==
    LET lbs == {i \in DOMAIN response : response[i].k = "lb"}
        rbs == {i \in DOMAIN response : response[i].k = "rb"}
        first == CHOOSE i \in lbs : \A j \in lbs : i <= j
        last  == CHOOSE i \in rbs : \A j \in rbs : i >= j
    IN  IF lbs = {} \/ rbs = {} THEN <<>>
        ELSE IF last < first THEN <<>>
        ELSE SubSeq(response, first, last)

\* whether json.loads accepts the string: one object, members only
JsonDecodes(json_str) ==
    /\ Len(json_str) >= 2
    /\ json_str[1].k = "lb"
    /\ json_str[Len(json_str)].k = "rb"
    /\ \A i \in 2..(Len(json_str) - 1) : json_str[i].k = "m"

\* the dict json.loads returns: of a repeated key the last member wins
JsonLoads(json_str) ==
    LET members == {i \in 2..(Len(json_str) - 1) : json_str[i].k = "m"}
        keys    == {json_str[i].key : i \in members}
        lastOf(a) == CHOOSE i \in members :
                        /\ json_str[i].key = a
                        /\ \A j \in members : json_str[j].key = a => j <= i
    IN  [a \in keys |-> json_str[lastOf(a)].val]

(* ------------------------------------------------------------------ *)
(* _validate_financial_data                                            *)
(* ------------------------------------------------------------------ *)
RequiredKeys == {"years", "balance_sheet", "income_statement", "cash_flow"}

\* mutant: "ratios" added to required_keys
_validate_financial_data_RequiresRatios(financial_data) ==
    IF \E key \in RequiredKeys \cup {"ratios"} : key \notin DOMAIN financial_data
    THEN FALSE
    ELSE IF financial_data["years"].t # "list"
    THEN FALSE
    ELSE IF \E key \in {"balance_sheet", "income_statement", "cash_flow"} :
                financial_data[key].t # "dict"
    THEN FALSE
    ELSE TRUE

_validate_financial_data(financial_data) ==
    IF \E key \in RequiredKeys : key \notin DOMAIN financial_data
    THEN FALSE
    ELSE IF financial_data["years"].t # "list"
    THEN FALSE
    ELSE IF \E key \in {"balance_sheet", "income_statement", "cash_flow"} :
                financial_data[key].t # "dict"
    THEN FALSE
    ELSE TRUE

(* ------------------------------------------------------------------ *)
(* _improved_parse_llm_response                                        *)
(* ------------------------------------------------------------------ *)
\* financial_data.get(key, default)
DictGet(d, key, default) == IF key \in DOMAIN d THEN d[key] ELSE default

\* mutant: cash_flow_data assigned from the balance_sheet entry
FieldsFromData_WrongKey(financial_data) ==
    [years                 |-> DictGet(financial_data, "years", PyList(<<>>)),
     balance_sheet_data    |-> DictGet(financial_data, "balance_sheet", EmptyDict),
     income_statement_data |-> DictGet(financial_data, "income_statement", EmptyDict),
     cash_flow_data        |-> DictGet(financial_data, "balance_sheet", EmptyDict),
     ratios                |-> DictGet(financial_data, "ratios", EmptyDict)]

\* the five assignments to the instance fields
FieldsFromData(financial_data) ==
    [years                 |-> DictGet(financial_data, "years", PyList(<<>>)),
     balance_sheet_data    |-> DictGet(financial_data, "balance_sheet", EmptyDict),
     income_statement_data |-> DictGet(financial_data, "income_statement", EmptyDict),
     cash_flow_data        |-> DictGet(financial_data, "cash_flow", EmptyDict),
     ratios                |-> DictGet(financial_data, "ratios", EmptyDict)]

\* what the parser does with a response: the exception it raises ("none"
\* when it returns), the value it returns, the object json.loads produced
\* (<<>> when it produced none) and whether the fields are assigned
ParseJson(json_str) ==
    IF json_str = <<>>
    THEN [exc |-> "ValueError", why |-> "no_json",
          data |-> <<>>, decoded |-> <<>>, assigns |-> FALSE]
    ELSE IF ~JsonDecodes(json_str)
    THEN [exc |-> "JSONDecodeError", why |-> "decode_error",
          data |-> <<>>, decoded |-> <<>>, assigns |-> FALSE]
    ELSE IF ~_validate_financial_data(JsonLoads(json_str))
    THEN [exc |-> "ValueError", why |-> "invalid",
          data |-> <<>>, decoded |-> JsonLoads(json_str), assigns |-> FALSE]
    ELSE [exc |-> "none", why |-> "ok",
          data |-> JsonLoads(json_str), decoded |-> JsonLoads(json_str),
          assigns |-> TRUE]

\* mutant: the five fields are assigned as soon as json.loads has returned,
\* before the structure is validated
FieldsAfterParse_AssignsBeforeValidation(fields, parsed) ==
    IF parsed.decoded # <<>> THEN FieldsFromData(parsed.decoded) ELSE fields

\* lines 209-236: the fields of the instance when the parser is left, by
\* return or by exception; the assignments of lines 221-226 come after the
\* validation of lines 216-218
FieldsAfterParse(fields, parsed) ==
    IF parsed.assigns THEN FieldsFromData(parsed.data) ELSE fields

_improved_parse_llm_response(response) ==
    CHOOSE parsed \in {ParseJson(json_str) : json_str \in {JsonMatch(response)}} : TRUE

(* ------------------------------------------------------------------ *)
(* _create_improved_extraction_prompt                                  *)
(* ------------------------------------------------------------------ *)
\* lines 104-195: the instructions and the JSON schema, a fixed text
PromptTemplate == Word("You are a financial data extraction expert. [...] Here is the financial statement text:")

\* no prompt built
NoPrompt == <<>>

\* lines 104-197: the template followed by self.pdf_text
_create_improved_extraction_prompt(pdf) == <<PromptTemplate>> \o pdf

(* ------------------------------------------------------------------ *)
(* LLMService.generate_text: the provider it ends up using             *)
(* ------------------------------------------------------------------ *)
\* provider "none" is Python's None
ActiveProvider(provider, available_providers) ==
    LET active_provider ==
            IF provider # "none" THEN provider ELSE available_providers[1]
    IN  IF active_provider \in SeqToSet(available_providers)
        THEN active_provider
        ELSE available_providers[1]

\* a provider that is neither openai nor google raises ValueError
ProviderSupported(active_provider) == active_provider \in {"openai", "google"}

(* ------------------------------------------------------------------ *)
(* extract_data_with_llm: its exception handlers and branches, each    *)
(* yielding what the frame does next                                   *)
(*   "fallback"  return self.extract_all_data()                        *)
(*   "return"    return financial_data                                 *)
(*   "retry"     return self.extract_data_with_llm(provider="openai")  *)
(*   "propagate" the exception leaves the frame                        *)
(* ------------------------------------------------------------------ *)
\* exception classes caught by "except Exception"
IsException(exc) == exc \in {"ValueError", "JSONDecodeError", "LLMError"}

\* mutant: the handler logs and re-raises instead of falling back
HandleGenerateError_Reraise(exc) == "propagate"

\* lines 67-71: except Exception around generate_text
HandleGenerateError(exc) ==
    IF IsException(exc) THEN "fallback" ELSE "propagate"

\* mutant: "except json.JSONDecodeError" in place of "except Exception"
HandleParseError_OnlyJson(exc) ==
    IF exc = "JSONDecodeError" THEN "fallback" ELSE "propagate"

\* mutant: the handler returns the (unset) financial_data
HandleParseError_Return(exc) == "return"

\* mutant: the handler tries the LLM again instead of falling back
HandleParseError_Retry(exc) == "retry"

\* lines 91-95: except Exception around parsing, validation and the retry
HandleParseError(exc) ==
    IF IsException(exc) THEN "fallback" ELSE "propagate"

\* lines 79-90: the branch on the validation of the parser's return value
AfterValidation(valid, provider, available_providers) ==
    IF valid THEN "return"
    ELSE IF provider # "openai" /\ "openai" \in SeqToSet(available_providers)
    THEN "retry"
    ELSE "fallback"

\* an exception leaving a nested frame arrives in the try block of the
\* calling frame (the recursive call is made inside it), whose handler
\* decides; depth is the number of frames on the stack
RECURSIVE Unwind(_, _, _)
Unwind(next, exc, depth) ==
    IF next = "propagate" /\ depth > 1
    THEN Unwind(HandleParseError(exc), exc, depth - 1)
    ELSE next

(* ------------------------------------------------------------------ *)
(* The database (app/models.py) as a session sees it                   *)
(*   documents  document_id of the CompanyData rows                    *)
(*   summary    the summary columns of the CompanyData row             *)
(*   fyears     FinancialYear rows in the order of their year_id       *)
(*   items      rows of the four item tables, tbl naming the table by  *)
(*              the section it stores                                  *)
(*   memos      FinancialMemo rows in the order of their memo_id       *)
(*   committed  how many of the FinancialYear rows are committed; the  *)
(*              later ones, and their item rows, are pending in the    *)
(*              session                                                *)
(* ------------------------------------------------------------------ *)
SectionNames == <<"balance_sheet", "income_statement", "cash_flow", "ratios">>

NoSummary ==
    [total_assets |-> None, total_liabilities |-> None, revenue |-> None,
     net_income |-> None, cash_flow |-> None]

\* a database holding the CompanyData rows of docs and nothing else
DbWithDocuments(docs) ==
    [documents |-> docs, summary |-> NoSummary, fyears |-> <<>>, items |-> {},
     memos |-> <<>>, committed |-> 0]

\* financial_data.get(<section>, {}).get(str(year), {}): the categories of
\* the year under the key str(year); raises AttributeError when the section
\* is no dict
SectionOfStrYear(financial_data, section_name, year) ==
    LET section == DictGet(financial_data, section_name, EmptyDict)
    IN  IF section.t # "dict" THEN [exc |-> "AttributeError", categories |-> <<>>]
        ELSE IF StrKey(year) \in DOMAIN section.map
        THEN [exc |-> "none", categories |-> section.map[StrKey(year)]]
        ELSE [exc |-> "none", categories |-> <<>>]

\* one row per (category, item) of the categories
ItemRows(section_name, year_id, categories) ==
    UNION { { [tbl |-> section_name, year_id |-> year_id, category |-> c,
               name |-> i, value |-> categories[c][i]] :
                 i \in DOMAIN categories[c] } :
            c \in DOMAIN categories }

\* lines 870-927: the body of the loop for one year; the sections are
\* stored in order up to the first one whose lookup raises
StoreYear(session, document_id, financial_data, year) ==
    LET year_id  == Len(session.fyears) + 1
        looked   == [k \in 1..4 |-> SectionOfStrYear(financial_data, SectionNames[k], year)]
        bad      == {k \in 1..4 : looked[k].exc # "none"}
        firstBad == IF bad = {} THEN 5 ELSE CHOOSE k \in bad : \A j \in bad : k <= j
        rows     == UNION {ItemRows(SectionNames[k], year_id, looked[k].categories) :
                              k \in {j \in 1..4 : j < firstBad}}
    IN  [session |-> [session EXCEPT
                         !.fyears = Append(@, [year_id |-> year_id,
                                               document_id |-> document_id,
                                               year |-> year]),
                         !.items = @ \cup rows],
         exc |-> IF bad = {} THEN "none" ELSE "AttributeError"]

\* store_financial_data: the session after the call and the exception that
\* leaves it ("none" when it returns)
store_financial_data(session, document_id, financial_data) ==
    IF document_id \notin session.documents
    THEN [session |-> session, exc |-> "none"]
    ELSE LET years == DictGet(financial_data, "years", PyList(<<>>))
         IN  IF years.t = "list" /\ years.seq = <<>>
             THEN [session |-> session, exc |-> "none"]
             ELSE IF years.t # "list"
             THEN [session |-> session, exc |-> "TypeError"]
             ELSE LET after[i \in 0..Len(years.seq)] ==
                          IF i = 0 THEN [session |-> session, exc |-> "none"]
                          ELSE IF after[i - 1].exc # "none" THEN after[i - 1]
                          ELSE StoreYear(after[i - 1].session, document_id,
                                         financial_data, years.seq[i])
                      last == after[Len(years.seq)]
                  IN  IF last.exc # "none" THEN last
                      ELSE [session |-> [last.session EXCEPT
                                            !.committed = Len(last.session.fyears)],
                            exc |-> "none"]

\* lines 972-1007 for one table: by year, the categories built from the
\* rows of the FinancialYear rows that have rows in the table; of two
\* FinancialYear rows of the same year the later one replaces the earlier
LoadedSection(session, year_rows, section_name) ==
    LET rowsOf(yid) == {r \in session.items : r.tbl = section_name /\ r.year_id = yid}
        having == {i \in DOMAIN year_rows : rowsOf(year_rows[i].year_id) # {}}
        lastOf(y) == CHOOSE i \in having :
                        /\ year_rows[i].year = y
                        /\ \A j \in having : year_rows[j].year = y => j <= i
        categoriesOf(rows) ==
            [c \in {r.category : r \in rows} |->
                [n \in {r.name : r \in {x \in rows : x.category = c}} |->
                    (CHOOSE r \in rows : r.category = c /\ r.name = n).value]]
    IN  PyDict([yk \in {IntKey(year_rows[i].year) : i \in having} |->
                  categoriesOf(rowsOf(year_rows[lastOf(yk[2])].year_id))])

\* the subsequence of the rows of the document
RowsOfDocument(rows, document_id) ==
    LET keep == {i \in DOMAIN rows : rows[i].document_id = document_id}
    IN  [k \in 1..Cardinality(keep) |->
            rows[CHOOSE i \in keep : Cardinality({j \in keep : j < i}) = k - 1]]

\* get_financial_data_for_document; {} is the function with empty domain
get_financial_data_for_document(session, document_id) ==
    IF document_id \notin session.documents THEN <<>>
    ELSE LET financial_years == RowsOfDocument(session.fyears, document_id)
         IN  IF financial_years = <<>> THEN <<>>
             ELSE [key \in {"years", "balance_sheet", "income_statement",
                            "cash_flow", "ratios"} |->
                      IF key = "years"
                      THEN PyList([i \in DOMAIN financial_years |-> financial_years[i].year])
                      ELSE LoadedSection(session, financial_years, key)]

\* db.close() of a session with pending rows: they are rolled back
CloseSession(session) ==
    [session EXCEPT
        !.fyears = SubSeq(@, 1, session.committed),
        !.items  = {r \in @ : r.year_id <= session.committed}]

(* ------------------------------------------------------------------ *)
(* process_financial_data (app/routers/documents.py): the summary      *)
(* columns of the CompanyData row, lines 85-141                        *)
(* ------------------------------------------------------------------ *)
\* "a in d and b in d[a]"
HasItem(categories, a, b) == a \in DOMAIN categories /\ b \in DOMAIN categories[a]

\* lines 94-106 and 109-121: the total of a current and a non-current
\* item; old is the column's value before
TotalOf(categories, cur_cat, cur_item, non_cat, non_item, old) ==
    IF ~HasItem(categories, cur_cat, cur_item) THEN old
    ELSE LET current == categories[cur_cat][cur_item]
         IN  IF HasItem(categories, non_cat, non_item)
             THEN LET non_current == categories[non_cat][non_item]
                  IN  IF current # None /\ non_current # None THEN current + non_current
                      ELSE IF current # None THEN current
                      ELSE IF non_current # None THEN non_current
                      ELSE old
             ELSE IF current # None THEN current ELSE old

\* financial_data[<section>][latest_year] when latest_year is a key of the
\* section, the key being the integer itself
SectionOfLatestYear(financial_data, section_name, latest_year) ==
    IF IntKey(latest_year) \in DOMAIN financial_data[section_name].map
    THEN [found |-> TRUE, categories |-> financial_data[section_name].map[IntKey(latest_year)]]
    ELSE [found |-> FALSE, categories |-> <<>>]

\* max(financial_data["years"])
LatestYear(years) == CHOOSE y \in SeqToSet(years) : \A z \in SeqToSet(years) : z <= y

\* lines 85-141: the summary columns after the update
UpdatedSummary(summary, financial_data) ==
    LET latest_year == LatestYear(financial_data["years"].seq)
        bs == SectionOfLatestYear(financial_data, "balance_sheet", latest_year)
        is == SectionOfLatestYear(financial_data, "income_statement", latest_year)
        cf == SectionOfLatestYear(financial_data, "cash_flow", latest_year)
    IN  [total_assets |->
             IF bs.found
             THEN TotalOf(bs.categories, "Current Assets", "Total Current Assets",
                          "Non-Current Assets", "Total Non-Current Assets",
                          summary.total_assets)
             ELSE summary.total_assets,
         total_liabilities |->
             IF bs.found
             THEN TotalOf(bs.categories, "Current Liabilities", "Total Current Liabilities",
                          "Non-Current Liabilities", "Total Non-Current Liabilities",
                          summary.total_liabilities)
             ELSE summary.total_liabilities,
         revenue |->
             IF is.found /\ HasItem(is.categories, "Revenue", "Total Revenue")
             THEN is.categories["Revenue"]["Total Revenue"] ELSE summary.revenue,
         net_income |->
             IF is.found /\ HasItem(is.categories, "Profit", "Net Income")
             THEN is.categories["Profit"]["Net Income"] ELSE summary.net_income,
         cash_flow |->
             IF cf.found /\ HasItem(cf.categories, "Operating Activities",
                                    "Net Cash from Operating Activities")
             THEN cf.categories["Operating Activities"]["Net Cash from Operating Activities"]
             ELSE summary.cash_flow]

\* lines 77-147 of process_financial_data on a session of its own: store,
\* update the summary, commit; an exception is logged and the session
\* closed
StoreAndSummarise(session, document_id, financial_data) ==
    LET stored == store_financial_data(session, document_id, financial_data)
    IN  IF stored.exc # "none" THEN CloseSession(stored.session)
        ELSE IF document_id \in stored.session.documents
                /\ financial_data["years"].seq # <<>>
        THEN [stored.session EXCEPT !.summary = UpdatedSummary(@, financial_data)]
        ELSE stored.session

(* ------------------------------------------------------------------ *)
(* Inputs                                                              *)
(* ------------------------------------------------------------------ *)
\* recursion depth at which the model stops following extract_data_with_llm
MaxDepth == 3

\* number of brace-carrying prose groups "{ ... }" put around an object
MaxBraceGroups == 1

\* number of required keys that may be absent or ill typed in one object
MaxDefects == 1

\* four years, the last one being later than or equal to the clock's year
FourYearsText ==
    <<Word("Years"), Num(2019), Punct(","), Num(2020), Punct(","), Num(2021),
      Punct(","), Num(2022)>>

\* "Year ended 2022. Total Current Assets 1,200. Total Current Liabilities
\* 600.": the grouped number "1,200" is the digits 1, a comma and the digits
\* 200, each delimited by \b
ScenarioText ==
    <<Word("Year"), Word("ended"), Num(2022), Punct("."),
      Label("Total Current Assets"), Num(1), Punct(","), Num(200), Punct("."),
      Label("Total Current Liabilities"), Num(600), Punct(".")>>

\* a document far longer than ten thousand characters
LongText == <<Word("Annual"), Word("report"), Num(2021), Filler(200000)>>

\* a statement of 2020 whose items stand near a standalone "20"
StatementText ==
    <<Word("Year"), Num(2020), Punct("."), Word("Note"), Num(20),
      Label("Total Current Assets"), Num(1000),
      Label("Total Current Liabilities"), Num(500),
      Label("Total Revenue"), Num(5000), Label("Net Income"), Num(1000),
      Label("Total Equity"), Num(2000)>>

\* a statement of 1999 with one item within reach of "19" and one beyond it
ArchiveText ==
    <<Num(1999), Word("page"), Num(19), Label("Inventory"), Num(7),
      Filler(600), Label("Total Equity"), Num(3)>>

Texts ==
    { <<>>,
      <<Word("Financial"), Word("data"), Num(2020), Punct(","), Num(2021),
        Word("and"), Num(2022), Punct(".")>>,
      StatementText,
      ArchiveText,
      <<Word("Forecast"), Num(2030), Word("no"), Word("history")>>,
      FourYearsText,
      ScenarioText,
      LongText }

\* the clock: the year of the spec's year-filtering example and the next one
CurrentYears == {2021, 2022}

\* LLM_PROVIDER as split at the commas, lower-cased and stripped; <<>> when
\* it names nothing
LlmProviderValues == { <<>>, <<"google">>, <<"google", "openai">>, <<"azure">> }

\* LLMService.__init__ in an environment: the names LLM_PROVIDER gives and
\* the providers whose API key is set
LLMService_init(names, keys) ==
    LET providers == IF names = <<>> THEN <<"google">> ELSE names
    IN  IF "openai" \in SeqToSet(providers) /\ "openai" \notin keys
        THEN [exc |-> "ValueError", available_providers |-> <<>>]
        ELSE IF "google" \in SeqToSet(providers) /\ "google" \notin keys
        THEN [exc |-> "ValueError", available_providers |-> <<>>]
        ELSE IF providers = <<>>
        THEN [exc |-> "ValueError", available_providers |-> <<>>]
        ELSE [exc |-> "none", available_providers |-> providers]

\* the services that construction yields: llm_service.available_providers
ProviderConfigs ==
    { made.available_providers :
        made \in { m \in { LLMService_init(names, keys) :
                               names \in LlmProviderValues,
                               keys \in SUBSET {"openai", "google"} } :
                     m.exc = "none" } }

\* the provider argument of extract_data_with_llm; "none" is None
ProviderArgs == {"none", "openai", "google"}

JsonKeys == <<"years", "balance_sheet", "income_statement", "cash_flow", "ratios">>

\* one year of a section as an LLM writes it
LlmSection(cat, item, x) ==
    PyDict([yk \in {StrKey(2021)} |->
                     [c \in {cat} |-> [i \in {item} |-> x]]])

\* the value a well-typed member carries, and an ill-typed one
GoodValue(key) ==
    CASE key = "years"            -> PyList(<<2021>>)
      [] key = "balance_sheet"    -> LlmSection("Current Assets", "Total Current Assets", 10)
      [] key = "income_statement" -> LlmSection("Revenue", "Total Revenue", 20)
      [] key = "cash_flow"        -> LlmSection("Operating Activities", "Net Income", 30)
      [] OTHER                    -> LlmSection("Liquidity", "Current Ratio", <<40, 1>>)

BadValue(key) ==
    CASE key = "years"            -> PyNum(2021)
      [] key = "balance_sheet"    -> PyList(<<>>)
      [] key = "income_statement" -> PyNum(0)
      [] key = "cash_flow"        -> PyNone
      [] OTHER                    -> PyNum(0)

\* the member of a key as the choice has it: absent, well or ill typed
MemberOf(choice, key) ==
    CASE choice[key] = "absent" -> <<>>
      [] choice[key] = "good"   -> <<Member(key, GoodValue(key))>>
      [] OTHER                  -> <<Member(key, BadValue(key))>>

MembersFrom(choice) ==
    MemberOf(choice, JsonKeys[1]) \o MemberOf(choice, JsonKeys[2])
    \o MemberOf(choice, JsonKeys[3]) \o MemberOf(choice, JsonKeys[4])
    \o MemberOf(choice, JsonKeys[5])

Object(choice) == <<LB>> \o MembersFrom(choice) \o <<RB>>

\* the objects with each key absent, well typed or ill typed, at most
\* MaxDefects of the four required keys being absent or ill typed
Objects ==
    {Object(choice) :
        choice \in {c \in [SeqToSet(JsonKeys) -> {"absent", "good", "bad"}] :
                       Cardinality({k \in SeqToSet(JsonKeys) \ {"ratios"} :
                                       c[k] # "good"}) <= MaxDefects}}

AllGood == [key \in SeqToSet(JsonKeys) |-> "good"]

\* objects that are also sent wrapped in prose
WrappedObjects ==
    { Object(AllGood),
      Object([AllGood EXCEPT !["ratios"] = "absent"]),
      Object([AllGood EXCEPT !["cash_flow"] = "absent"]) }

\* n groups "{ prose }"
BraceGroups(n) ==
    [i \in 1..(3 * n) |->
        CASE i % 3 = 1 -> LB
          [] i % 3 = 2 -> Prose
          [] OTHER     -> RB]

Responses ==
    Objects
    \cup {<<Prose>> \o o \o <<Prose>> : o \in WrappedObjects}
    \cup {o \o <<Prose>> \o BraceGroups(n) : o \in WrappedObjects, n \in 1..MaxBraceGroups}
    \cup {BraceGroups(n) \o <<Prose>> \o o : o \in WrappedObjects, n \in 1..MaxBraceGroups}
    \cup { <<>>, <<Prose>>, <<Prose, RB, Prose, LB>>, <<LB, Prose>>,
           <<LB, Prose, RB>>,
           <<LB, Member("years", BadValue("years"))>>
               \o MembersFrom(AllGood) \o <<RB>> }

(* ------------------------------------------------------------------ *)
(* State                                                               *)
(* ------------------------------------------------------------------ *)
VARIABLES
    pdf_text,             \* self.pdf_text
    now_year,             \* datetime.now().year
    available_providers,  \* llm_service.available_providers
    self,                 \* years, balance_sheet_data, ..., ratios
    pc,                   \* "idle", "generate", "parse", "parse_failed", "validate", "done"
    op,                   \* the top-level operation called last
    provider,             \* the provider argument of the running frame
    depth,                \* frames of extract_data_with_llm on the stack
    response,             \* the text generate_text returned last
    llm_data,             \* what the parser returned in the running frame
    decoded,              \* what json.loads produced last
    result,               \* the value returned to the caller
    raised,               \* the exception that reached the caller
    trace,                \* what happened since the top-level call
    prev_op,              \* the top-level operation that returned before it
    prev_ending,          \* how that operation ended: the last event of its trace
    called_ratio,         \* the ratio_name of the last _calculate_ratio call
    ratio_value,          \* what that call returned: a fraction, <<>> for None
    other,                \* a second extractor instance, suspended: its state
    preempted,            \* whether the running call was suspended on its way
    prompt,               \* the prompt extract_data_with_llm built last
    db,                   \* the database: documents and the rows of the tables
    loaded,               \* what get_financial_data_for_document returned last
    task,                 \* the background task at work and how far it is
    outcome,              \* the exception that left the last store_financial_data call
    stored,               \* the financial_data of the last store_financial_data call
    memo_run              \* the last run of _generate_and_save_memo: its steps and end

vars == <<pdf_text, now_year, available_providers, self, pc, op, provider,
          depth, response, llm_data, decoded, result, raised, trace,
          prev_op, prev_ending, called_ratio, ratio_value, other, preempted,
          prompt, db, loaded, task, outcome, stored, memo_run>>

\* __init__
NewFields ==
    [years                 |-> PyList(<<>>),
     balance_sheet_data    |-> EmptyDict,
     income_statement_data |-> EmptyDict,
     cash_flow_data        |-> EmptyDict,
     ratios                |-> EmptyDict]

\* the assignments of extract_all_data, read back from the dict it returns
FieldsFromResult(r) ==
    [years                 |-> r.years,
     balance_sheet_data    |-> r.balance_sheet,
     income_statement_data |-> r.income_statement,
     cash_flow_data        |-> r.cash_flow,
     ratios                |-> r.ratios]

\* the returned Python dict as a function of its keys
AsDict(r) ==
    [key \in {"years", "balance_sheet", "income_statement", "cash_flow", "ratios"} |->
        CASE key = "years"            -> r.years
          [] key = "balance_sheet"    -> r.balance_sheet
          [] key = "income_statement" -> r.income_statement
          [] key = "cash_flow"        -> r.cash_flow
          [] OTHER                    -> r.ratios]

NoValue == <<>>

\* extract_all_data on each input of the model, evaluated once
ExtractAllDataTable ==
    {<<t, y, extract_all_data(t, y)>> : t \in Texts, y \in CurrentYears}

ExtractAllDataOf(text, year) ==
    (CHOOSE row \in ExtractAllDataTable : row[1] = text /\ row[2] = year)[3]

\* the fields an instance of the model can have between two calls
PossibleFields ==
    {NewFields}
    \cup {FieldsFromData(JsonLoads(o)) :
             o \in {x \in Objects : _validate_financial_data(JsonLoads(x))}}
    \cup {FieldsAfterExtractAllData(NewFields, t, y) : t \in Texts, y \in CurrentYears}

\* FieldsAfterExtractAllData on the fields, texts and years of the model,
\* evaluated once
FieldsAfterExtractAllDataTable ==
    {<<t, y, f, FieldsAfterExtractAllData(f, t, y)>> :
        t \in Texts, y \in CurrentYears, f \in PossibleFields}

FieldsAfterExtractAllDataOf(f, text, year) ==
    IF \E row \in FieldsAfterExtractAllDataTable :
          row[1] = text /\ row[2] = year /\ row[3] = f
    THEN (CHOOSE row \in FieldsAfterExtractAllDataTable :
             row[1] = text /\ row[2] = year /\ row[3] = f)[4]
    ELSE FieldsAfterExtractAllData(f, text, year)

\* no second instance
NoInstance == <<>>

\* no database session
NoDb == <<>>

\* get_financial_data_for_document not called since the database changed
NotLoaded == <<"not loaded">>
NoMemoRun == <<>>

Init ==
    /\ pdf_text \in Texts
    /\ now_year \in CurrentYears
    /\ available_providers \in ProviderConfigs
    /\ self = NewFields
    /\ pc = "idle"
    /\ op = "none"
    /\ provider = "none"
    /\ depth = 0
    /\ response = <<>>
    /\ llm_data = NoValue
    /\ decoded = NoValue
    /\ result = NoValue
    /\ raised = "none"
    /\ trace = <<>>
    /\ prev_op = "none"
    /\ prev_ending = "none"
    /\ called_ratio = "none"
    /\ ratio_value = <<>>
    /\ other = NoInstance
    /\ preempted = FALSE
    /\ prompt = NoPrompt
    /\ db = NoDb
    /\ loaded = NotLoaded
    /\ task = "none"
    /\ outcome = "none"
    /\ stored = NoValue
    /\ memo_run = NoMemoRun

\* what the frame does after a handler or branch chose `next`; exc is the
\* exception in flight, data the parser's value, events the trace so far
Do(next, exc, data, fields, events) ==
    \E todo \in {Unwind(next, exc, depth)} :
        /\ trace' = Append(events, <<"next", todo>>)
        /\ CASE todo = "fallback" ->
                  /\ \E f \in {FieldsAfterExtractAllDataOf(fields, pdf_text, now_year)} :
                        self' = f /\ result' = ReturnedDict(f)
                  /\ pc' = "done"
                  /\ depth' = 0
                  /\ UNCHANGED <<provider, raised>>
             [] todo = "return" ->
                  /\ self' = fields
                  /\ result' = data
                  /\ pc' = "done"
                  /\ depth' = 0
                  /\ UNCHANGED <<provider, raised>>
             [] todo = "retry" ->
                  /\ depth < MaxDepth
                  /\ self' = fields
                  /\ provider' = "openai"
                  /\ pc' = "generate"
                  /\ depth' = depth + 1
                  /\ UNCHANGED <<result, raised>>
             [] OTHER ->
                  /\ self' = fields
                  /\ raised' = exc
                  /\ pc' = "done"
                  /\ depth' = 0
                  /\ UNCHANGED <<provider, result>>

\* extract_all_data called by the caller
CallExtractAllData ==
    /\ pc \in {"idle", "done"}
    /\ op' = "extract_all_data"
    /\ prev_op' = op
    /\ prev_ending' = IF trace = <<>> THEN "none" ELSE trace[Len(trace)][2]
    /\ \E f \in {FieldsAfterExtractAllDataOf(self, pdf_text, now_year)} :
          self' = f /\ result' = ReturnedDict(f)
    /\ pc' = "done"
    /\ raised' = "none"
    /\ trace' = <<>>
    /\ response' = <<>>
    /\ llm_data' = NoValue
    /\ decoded' = NoValue
    /\ prompt' = NoPrompt
    /\ preempted' = FALSE
    /\ called_ratio' = "none"
    /\ ratio_value' = <<>>
    /\ UNCHANGED <<db, loaded, task, outcome, stored, memo_run>>
    /\ UNCHANGED <<pdf_text, now_year, available_providers, other, provider, depth>>

\* extract_data_with_llm(provider) called by the caller: lines 49-60
CallExtractDataWithLLM(p) ==
    /\ pc \in {"idle", "done"}
    /\ op' = "extract_data_with_llm"
    /\ prev_op' = op
    /\ prev_ending' = IF trace = <<>> THEN "none" ELSE trace[Len(trace)][2]
    /\ provider' = p
    /\ depth' = 1
    /\ pc' = "generate"
    /\ result' = NoValue
    /\ raised' = "none"
    /\ trace' = <<>>
    /\ response' = <<>>
    /\ llm_data' = NoValue
    /\ decoded' = NoValue
    /\ prompt' = _create_improved_extraction_prompt(pdf_text)
    /\ preempted' = FALSE
    /\ called_ratio' = "none"
    /\ ratio_value' = <<>>
    /\ UNCHANGED <<db, loaded, task, outcome, stored, memo_run>>
    /\ UNCHANGED <<pdf_text, now_year, available_providers, other, self>>

\* lines 61-71 with generate_text raising (or len(response) raising)
GenerateTextRaises(exc) ==
    /\ pc = "generate"
    /\ ProviderSupported(ActiveProvider(provider, available_providers))
          \/ exc = "ValueError"
    /\ Do(HandleGenerateError(exc), exc, NoValue, self,
          trace \o << <<"generate", ActiveProvider(provider, available_providers)>>,
                      <<"raise", exc>> >>)
    /\ UNCHANGED <<db, loaded, task, outcome, stored, memo_run>>
    /\ UNCHANGED <<pdf_text, now_year, available_providers, other, preempted, prompt, op, response,
                   llm_data, decoded,
                   prev_op, prev_ending, called_ratio, ratio_value>>

\* lines 61-66 with generate_text returning a text
GenerateTextReturns(r) ==
    /\ pc = "generate"
    /\ ProviderSupported(ActiveProvider(provider, available_providers))
    /\ response' = r
    /\ pc' = "parse"
    /\ trace' = Append(trace, <<"generate", ActiveProvider(provider, available_providers)>>)
    /\ UNCHANGED <<db, loaded, task, outcome, stored, memo_run>>
    /\ UNCHANGED <<pdf_text, now_year, available_providers, other, preempted, prompt, self, op, provider,
                   depth, llm_data, decoded, result, raised,
                   prev_op, prev_ending, called_ratio, ratio_value>>

\* line 76: the call of _improved_parse_llm_response, which returns or
\* raises
ParseResponse ==
    /\ pc = "parse"
    /\ \E parsed \in {_improved_parse_llm_response(response)} :
           /\ decoded' = parsed.decoded
           /\ self' = FieldsAfterParse(self, parsed)
           /\ trace' = Append(trace, <<"parse", parsed.why>>)
           /\ IF parsed.exc = "none"
              THEN /\ llm_data' = parsed.data
                   /\ pc' = "validate"
              ELSE /\ llm_data' = NoValue
                   /\ pc' = "parse_failed"
    /\ UNCHANGED <<provider, depth, result, raised>>
    /\ UNCHANGED <<db, loaded, task, outcome, stored, memo_run>>
    /\ UNCHANGED <<pdf_text, now_year, available_providers, other, preempted, prompt, op, response,
                   prev_op, prev_ending, called_ratio, ratio_value>>

\* lines 91-95: the handler of the exception the parser raised
HandleParseFailure ==
    /\ pc = "parse_failed"
    /\ \E parsed \in {_improved_parse_llm_response(response)} :
           Do(HandleParseError(parsed.exc), parsed.exc, NoValue, self, trace)
    /\ UNCHANGED <<db, loaded, task, outcome, stored, memo_run>>
    /\ UNCHANGED <<pdf_text, now_year, available_providers, other, preempted, prompt, op, response,
                   llm_data, decoded,
                   prev_op, prev_ending, called_ratio, ratio_value>>

\* lines 79-90: validation of the parser's value, return, retry or fallback
ValidateAndReturn ==
    /\ pc = "validate"
    /\ Do(AfterValidation(_validate_financial_data(llm_data), provider,
                          available_providers),
          "none", llm_data, self,
          Append(trace, <<"validate",
                          IF _validate_financial_data(llm_data)
                          THEN "valid" ELSE "invalid">>))
    /\ UNCHANGED <<db, loaded, task, outcome, stored, memo_run>>
    /\ UNCHANGED <<pdf_text, now_year, available_providers, other, preempted, prompt, op, response,
                   llm_data, decoded,
                   prev_op, prev_ending, called_ratio, ratio_value>>

Next ==
    \/ CallExtractAllData
    \/ \E p \in ProviderArgs : CallExtractDataWithLLM(p)
    \/ \E exc \in {"LLMError", "ValueError"} : GenerateTextRaises(exc)
    \/ \E r \in Responses : GenerateTextReturns(r)
    \/ ParseResponse
    \/ HandleParseFailure
    \/ ValidateAndReturn

Spec == Init /\ [][Next]_vars

\* the steps of a running call
RunningStep ==
    \/ \E exc \in {"LLMError", "ValueError"} : GenerateTextRaises(exc)
    \/ \E r \in Responses : GenerateTextReturns(r)
    \/ ParseResponse
    \/ HandleParseFailure
    \/ ValidateAndReturn

\* the interpreter runs a started call on: generate_text returns or raises
FairSpec == Spec /\ WF_vars(RunningStep)

(* ------------------------------------------------------------------ *)
(* The ratio engine on extracted data: texts that give the year 20 a   *)
(* context with any combination of the operands of the ratios          *)
(* ------------------------------------------------------------------ *)
\* the year _extract_years yields for a text that mentions 20xx
RatioYear == 20

RatioOperands ==
    [tca  : {None, 1000},
     tnca : {None, 0, 4000},
     tcl  : {None, 0, 500},
     tncl : {None, 0, 300},
     te   : {None, 0, 2000},
     ni   : {None, 1000},
     tr   : {None, 0, 5000}]

\* "<label> <value>" when the operand is in the text
OperandText(label, v) == IF v = None THEN <<>> ELSE <<Label(label), Num(v)>>

RatioText(o) ==
    <<Word("Year"), Num(2020), Punct("."), Word("Note"), Num(RatioYear)>>
    \o OperandText("Total Current Assets", o.tca)
    \o OperandText("Total Non-Current Assets", o.tnca)
    \o OperandText("Total Current Liabilities", o.tcl)
    \o OperandText("Total Non-Current Liabilities", o.tncl)
    \o OperandText("Total Equity", o.te)
    \o OperandText("Net Income", o.ni)
    \o OperandText("Total Revenue", o.tr)

RatioTexts == {RatioText(o) : o \in RatioOperands}

RatioNames ==
    {"Current Ratio", "Quick Ratio", "Debt-to-Equity Ratio", "Net Profit Margin",
     "Return on Assets"}

RatioInit ==
    /\ pdf_text \in RatioTexts
    /\ now_year \in CurrentYears
    /\ available_providers = <<"google">>
    /\ self = NewFields
    /\ pc = "idle"
    /\ op = "none"
    /\ provider = "none"
    /\ depth = 0
    /\ response = <<>>
    /\ llm_data = NoValue
    /\ decoded = NoValue
    /\ result = NoValue
    /\ raised = "none"
    /\ trace = <<>>
    /\ prev_op = "none"
    /\ prev_ending = "none"
    /\ called_ratio = "none"
    /\ ratio_value = <<>>
    /\ other = NoInstance
    /\ preempted = FALSE
    /\ prompt = NoPrompt
    /\ db = NoDb
    /\ loaded = NotLoaded
    /\ task = "none"
    /\ outcome = "none"
    /\ stored = NoValue
    /\ memo_run = NoMemoRun

\* _calculate_ratio(ratio_name, RatioYear) called on the instance
CallCalculateRatio(name) ==
    /\ pc \in {"idle", "done"}
    /\ called_ratio' = name
    /\ ratio_value' = _calculate_ratio(self.balance_sheet_data,
                                       self.income_statement_data, name, RatioYear)
    /\ UNCHANGED <<db, loaded, task, outcome, stored, memo_run>>
    /\ UNCHANGED <<pdf_text, now_year, available_providers, other, preempted, prompt, self, pc, op, provider,
                   depth, response, llm_data, decoded, result, raised, trace,
                   prev_op, prev_ending>>

RatioNext ==
    \/ CallExtractAllData
    \/ \E name \in RatioNames : CallCalculateRatio(name)

RatioSpec == RatioInit /\ [][RatioNext]_vars

(* ------------------------------------------------------------------ *)
(* Two extractor instances on different documents in one process,      *)
(* their calls interleaved step by step. The variables pdf_text ..     *)
(* preempted are the instance that is running; `other` holds the       *)
(* instance that is suspended. Both use the module-level llm_service    *)
(* (available_providers) and the same clock.                           *)
(* ------------------------------------------------------------------ *)
\* everything an instance and its running call own: the attributes
\* __init__ creates on the instance and the locals of its frames
InstanceState ==
    [text |-> pdf_text, fields |-> self, at |-> pc, oper |-> op,
     prov |-> provider, frames |-> depth, resp |-> response, data |-> llm_data,
     dec |-> decoded, res |-> result, exc |-> raised, events |-> trace,
     pop |-> prev_op, pend |-> prev_ending, cratio |-> called_ratio,
     rvalue |-> ratio_value, pre |-> preempted, prm |-> prompt]

\* FinancialDataExtractor(text), no call made yet
NewInstance(text) ==
    [text |-> text, fields |-> NewFields, at |-> "idle", oper |-> "none",
     prov |-> "none", frames |-> 0, resp |-> <<>>, data |-> NoValue,
     dec |-> NoValue, res |-> NoValue, exc |-> "none", events |-> <<>>,
     pop |-> "none", pend |-> "none", cratio |-> "none",
     rvalue |-> <<>>, pre |-> FALSE, prm |-> NoPrompt]

\* mutant: the five data attributes are class attributes, so the instance
\* that resumes finds what the other instance left in them
Resumed_ClassAttributes(inst) == [inst EXCEPT !.fields = self]

\* what an instance finds when it runs on: its attributes are its own
\* (__init__ assigns them on self), so exactly what it had when suspended
Resumed(inst) == inst

\* the interpreter suspends the running instance and runs the other one on
Switch ==
    /\ other # NoInstance
    /\ other' = [InstanceState EXCEPT
                    !.pre = @ \/ pc \notin {"idle", "done"}]
    /\ \E inst \in {Resumed(other)} :
          /\ pdf_text' = inst.text
          /\ self' = inst.fields
          /\ pc' = inst.at
          /\ op' = inst.oper
          /\ provider' = inst.prov
          /\ depth' = inst.frames
          /\ response' = inst.resp
          /\ llm_data' = inst.data
          /\ decoded' = inst.dec
          /\ result' = inst.res
          /\ raised' = inst.exc
          /\ trace' = inst.events
          /\ prev_op' = inst.pop
          /\ prev_ending' = inst.pend
          /\ called_ratio' = inst.cratio
          /\ ratio_value' = inst.rvalue
          /\ preempted' = inst.pre
          /\ prompt' = inst.prm
    /\ UNCHANGED <<now_year, available_providers, db, loaded, task, outcome, stored,
                   memo_run>>

\* the two documents
PairDocs == <<StatementText, ArchiveText>>

\* what the LLM answers in the two-instance runs: a valid object, prose
\* without JSON, an object without cash_flow
PairResponses ==
    { Object(AllGood), <<Prose>>, Object([AllGood EXCEPT !["cash_flow"] = "absent"]) }

PairInit ==
    /\ pdf_text = PairDocs[1]
    /\ other = NewInstance(PairDocs[2])
    /\ now_year = 2022
    /\ available_providers = <<"google", "openai">>
    /\ self = NewFields
    /\ pc = "idle"
    /\ op = "none"
    /\ provider = "none"
    /\ depth = 0
    /\ response = <<>>
    /\ llm_data = NoValue
    /\ decoded = NoValue
    /\ result = NoValue
    /\ raised = "none"
    /\ trace = <<>>
    /\ prev_op = "none"
    /\ prev_ending = "none"
    /\ called_ratio = "none"
    /\ ratio_value = <<>>
    /\ preempted = FALSE
    /\ prompt = NoPrompt
    /\ db = NoDb
    /\ loaded = NotLoaded
    /\ task = "none"
    /\ outcome = "none"
    /\ stored = NoValue
    /\ memo_run = NoMemoRun

PairNext ==
    \/ Switch
    \/ CallExtractAllData
    \/ CallExtractDataWithLLM("none")
    \/ GenerateTextRaises("LLMError")
    \/ \E r \in PairResponses : GenerateTextReturns(r)
    \/ ParseResponse
    \/ HandleParseFailure
    \/ ValidateAndReturn

PairSpec == PairInit /\ [][PairNext]_vars

(* ------------------------------------------------------------------ *)
(* The extractor with the database behind it: a caller that stores and *)
(* loads results, and the background task process_financial_data       *)
(* ------------------------------------------------------------------ *)
\* the document_id of the CompanyData row the calls name
DocumentId == 1

\* FinancialMemo rows in the database beyond which the model starts no task
MaxMemos == 2

\* the memo the LLM writes, and the path of the Word file of a memo
MemoText == "Credit memo"
MemoPath == "memos/Company_credit_memo.docx"
\* file_path None
NoFile == "none"

\* analyzer.py lines 20-70: the data of the document is loaded (a failure
\* there is swallowed), the prompt is built and handed to generate_text,
\* whose exception is logged and raised again; generated is what
\* generate_text does
analyze_financial_document(session, document_id, generated) ==
    LET financial_data == get_financial_data_for_document(session, document_id)
    IN  IF generated = MemoText
        THEN [exc |-> "none",
              memo |-> [text |-> generated, with_data |-> financial_data # <<>>]]
        ELSE [exc |-> generated, memo |-> NoValue]

\* mutant: a failure of the Word formatting ends the task like any other
\* failure, before the row is added
_generate_and_save_memo_FormattingAborts(session, document_id, memo_provider, generated, formatted, saved) ==
    LET analysis == analyze_financial_document(session, document_id, generated)
    IN  IF analysis.exc = "none" /\ formatted = MemoPath /\ saved = "none"
        THEN [session |-> [session EXCEPT !.memos =
                             Append(@, [document_id |-> document_id,
                                        memo_string |-> analysis.memo,
                                        file_path |-> formatted,
                                        llm_provider |-> memo_provider])],
              exc |-> "none"]
        ELSE [session |-> session, exc |-> "none"]

\* memos.py lines 210-258: formatted is what format_memo_as_docx does (the
\* path, or the exception the inner handler turns into file_path None),
\* saved is what db.add and db.commit do; the outer handler logs every
\* exception and raises none
_generate_and_save_memo(session, document_id, memo_provider, generated, formatted, saved) ==
    LET analysis == analyze_financial_document(session, document_id, generated)
        file_path == IF formatted = MemoPath THEN formatted ELSE NoFile
    IN  IF analysis.exc = "none" /\ saved = "none"
        THEN [session |-> [session EXCEPT !.memos =
                             Append(@, [document_id |-> document_id,
                                        memo_string |-> analysis.memo,
                                        file_path |-> file_path,
                                        llm_provider |-> memo_provider])],
              exc |-> "none"]
        ELSE [session |-> session, exc |-> "none"]

\* FinancialYear rows in the database beyond which the model stores no more
MaxYearRows == 2

DbTexts == { <<>>, StatementText, ArchiveText }

\* what the LLM answers: a valid object, prose without JSON, and a valid
\* object whose optional ratios member is no dict
DbResponses ==
    { Object(AllGood), <<Prose>>, Object([AllGood EXCEPT !["ratios"] = "bad"]) }

DbInit ==
    /\ pdf_text \in DbTexts
    /\ now_year = 2022
    /\ available_providers = <<"google", "openai">>
    /\ db \in {DbWithDocuments({DocumentId}), DbWithDocuments({})}
    /\ self = NewFields
    /\ pc = "idle"
    /\ op = "none"
    /\ provider = "none"
    /\ depth = 0
    /\ response = <<>>
    /\ llm_data = NoValue
    /\ decoded = NoValue
    /\ result = NoValue
    /\ raised = "none"
    /\ trace = <<>>
    /\ prev_op = "none"
    /\ prev_ending = "none"
    /\ called_ratio = "none"
    /\ ratio_value = <<>>
    /\ other = NoInstance
    /\ preempted = FALSE
    /\ prompt = NoPrompt
    /\ loaded = NotLoaded
    /\ task = "none"
    /\ outcome = "none"
    /\ stored = NoValue
    /\ memo_run = NoMemoRun

\* everything of the extractor and its running call
ExtractorVars ==
    <<pdf_text, now_year, available_providers, self, pc, op, provider, depth,
      response, llm_data, decoded, result, raised, trace, prev_op, prev_ending,
      called_ratio, ratio_value, other, preempted, prompt>>

\* a caller passes the result it holds to store_financial_data
CallStoreFinancialData ==
    /\ task # "extracting"
    /\ pc = "done"
    /\ result # NoValue
    /\ Len(db.fyears) < MaxYearRows
    /\ \E r \in {store_financial_data(db, DocumentId, result)} :
          /\ db' = r.session
          /\ outcome' = r.exc
    /\ stored' = result
    /\ loaded' = NotLoaded
    /\ UNCHANGED task
    /\ UNCHANGED ExtractorVars
    /\ UNCHANGED memo_run

\* a caller loads the data of the document
CallGetFinancialData ==
    /\ task # "extracting"
    /\ loaded' = get_financial_data_for_document(db, DocumentId)
    /\ UNCHANGED <<db, task, outcome, stored>>
    /\ UNCHANGED ExtractorVars
    /\ UNCHANGED memo_run

\* the caller's session is closed with rows pending after a failed store
CallCloseSession ==
    /\ db.committed < Len(db.fyears)
    /\ db' = CloseSession(db)
    /\ loaded' = NotLoaded
    /\ UNCHANGED <<task, outcome, stored>>
    /\ UNCHANGED ExtractorVars
    /\ UNCHANGED memo_run

\* process_financial_data, lines 63-72: a new extractor on the text and
\* extract_data_with_llm(provider="openai") called on it
StartProcessFinancialData ==
    /\ task # "extracting"
    /\ pc \in {"idle", "done"}
    /\ db.committed = Len(db.fyears)
    /\ Len(db.fyears) < MaxYearRows
    /\ task' = "extracting"
    /\ self' = NewFields
    /\ op' = "extract_data_with_llm"
    /\ prev_op' = "none"
    /\ prev_ending' = "none"
    /\ provider' = "openai"
    /\ depth' = 1
    /\ pc' = "generate"
    /\ result' = NoValue
    /\ raised' = "none"
    /\ trace' = <<>>
    /\ response' = <<>>
    /\ llm_data' = NoValue
    /\ decoded' = NoValue
    /\ prompt' = _create_improved_extraction_prompt(pdf_text)
    /\ preempted' = FALSE
    /\ called_ratio' = "none"
    /\ ratio_value' = <<>>
    /\ UNCHANGED <<pdf_text, now_year, available_providers, other, db, loaded,
                   outcome, stored, memo_run>>

\* process_financial_data, lines 77-150, once the extraction has returned
FinishProcessFinancialData ==
    /\ task = "extracting"
    /\ pc = "done"
    /\ db' = StoreAndSummarise(db, DocumentId, result)
    /\ task' = "processed"
    /\ stored' = result
    /\ outcome' = "none"
    /\ loaded' = NotLoaded
    /\ UNCHANGED ExtractorVars
    /\ UNCHANGED memo_run

\* POST /generate-memo, memos.py lines 87-94: the background task runs with
\* the provider of the request ("none" for None, "google" or "openai") on a session
\* with nothing pending, between the calls of the extractor
RunGenerateAndSaveMemo(memo_provider, generated, formatted, saved) ==
    /\ task # "extracting"
    /\ pc \in {"idle", "done"}
    /\ db.committed = Len(db.fyears)
    /\ Len(db.memos) < MaxMemos
    /\ \E r \in {_generate_and_save_memo(db, DocumentId, memo_provider, generated,
                                         formatted, saved)} :
          /\ db' = r.session
          /\ memo_run' = [before |-> Len(db.memos), llm_provider |-> memo_provider,
                          analysis |-> generated, formatting |-> formatted,
                          save |-> IF generated = MemoText THEN saved ELSE "not reached",
                          raised |-> r.exc]
    /\ UNCHANGED <<loaded, task, outcome, stored>>
    /\ UNCHANGED ExtractorVars

DbNext ==
    \/ task # "extracting" /\ CallExtractAllData
    \/ GenerateTextRaises("LLMError")
    \/ \E r \in DbResponses : GenerateTextReturns(r)
    \/ ParseResponse
    \/ HandleParseFailure
    \/ ValidateAndReturn
    \/ CallStoreFinancialData
    \/ CallGetFinancialData
    \/ CallCloseSession
    \/ StartProcessFinancialData
    \/ FinishProcessFinancialData

DbSpec == DbInit /\ [][DbNext]_vars

\* the memo task on a database that holds what the pattern extraction of
\* the document gave, or nothing
MemoNext ==
    \/ CallExtractAllData
    \/ CallStoreFinancialData
    \/ \E memo_provider \in {"none", "google"}, generated \in {MemoText, "LLMError"},
          formatted \in {MemoPath, "OSError"}, saved \in {"none", "OperationalError"} :
          RunGenerateAndSaveMemo(memo_provider, generated, formatted, saved)

MemoSpec == DbInit /\ [][MemoNext]_vars

(* ------------------------------------------------------------------ *)
(* Reading the trace of the running top-level call                     *)
(* ------------------------------------------------------------------ *)
EventsOf(kind) == {i \in DOMAIN trace : trace[i][1] = kind}

\* number of llm_service.generate_text calls
GenerateCalls == Cardinality(EventsOf("generate"))

\* the outcomes of the parser calls
ParseOutcomes == {trace[i][2] : i \in EventsOf("parse")}

\* how the call ended: "fallback", "return" or "propagate"
Ending == IF trace = <<>> THEN "none" ELSE trace[Len(trace)][2]

LlmCallDone == pc = "done" /\ op = "extract_data_with_llm"

\* what extract_all_data returns on the text of the extractor
RegexResult == AsDict(ExtractAllDataOf(pdf_text, now_year))

FiveKeys == {"years", "balance_sheet", "income_statement", "cash_flow", "ratios"}

(* ------------------------------------------------------------------ *)
(* Claims                                                              *)
(* ------------------------------------------------------------------ *)

\* C1: when every generate_text call of a finished extract_data_with_llm
\* call raised, the call returned a value, no exception reached the caller
\* and the value is what extract_all_data returns on the same text.
C1_FallbackWhenLlmRaises ==
    (/\ LlmCallDone
     /\ GenerateCalls >= 1
     /\ Cardinality(EventsOf("raise")) = GenerateCalls)
    => (/\ raised = "none"
        /\ result # NoValue
        /\ result = RegexResult)

\* a call on a text with years in which generate_text raised
C1_Witness ==
    /\ LlmCallDone
    /\ EventsOf("raise") # {}
    /\ result # NoValue
    /\ result["years"].seq # <<>>

\* C2: extract_data_with_llm never raises: whatever generate_text does, no
\* exception reaches the caller and a finished call has returned a value.
C2_NeverRaises ==
    /\ raised = "none"
    /\ LlmCallDone => result # NoValue

\* a finished call whose response held JSON that json.loads rejected
C2_Witness ==
    /\ LlmCallDone
    /\ "decode_error" \in ParseOutcomes
    /\ raised = "none"

\* a provider that is configured and is not the one the call just used
AlternateProviders ==
    {q \in SeqToSet(available_providers) :
        \E i \in EventsOf("generate") :
            /\ \A j \in EventsOf("generate") : i <= j
            /\ q # trace[i][2]}

\* C3 (as claimed): after a schema-invalid object the LLM extraction is
\* retried once against a configured provider different from the one just
\* used, and the regex path runs only when there is no such provider.
C3_RetriesOnInvalidSchema ==
    (LlmCallDone /\ "invalid" \in ParseOutcomes)
    => IF AlternateProviders # {}
       THEN /\ GenerateCalls = 2
            /\ \E i, j \in EventsOf("generate") : i < j /\ trace[i][2] # trace[j][2]
       ELSE /\ GenerateCalls = 1
            /\ result = RegexResult

\* C4: when the response holds no JSON object or the located JSON does not
\* decode, the call returns exactly what extract_all_data returns on the
\* same text and no exception reaches the caller.
C4_MalformedResponseFallsBack ==
    (LlmCallDone /\ ParseOutcomes \cap {"no_json", "decode_error"} # {})
    => (/\ raised = "none"
        /\ result = RegexResult)

\* a non-empty response without JSON, on a text with years
C4_Witness ==
    /\ LlmCallDone
    /\ "no_json" \in ParseOutcomes
    /\ response # <<>>
    /\ result # NoValue
    /\ result["years"].seq # <<>>

\* C5: in a top-level call generate_text is invoked at most twice, and a
\* started call ends.
C5_BoundedRetries ==
    /\ [](GenerateCalls <= 2)
    /\ (pc \in {"generate", "parse", "validate"}) ~> (pc = "done")

\* a finished call that had a schema-invalid object while another provider
\* was configured: the place where a retry is possible
C5_Witness ==
    /\ LlmCallDone
    /\ "invalid" \in ParseOutcomes
    /\ provider # "openai"
    /\ "openai" \in SeqToSet(available_providers)
    /\ GenerateCalls >= 1

\* C6 (as claimed): every value returned by extract_all_data or by
\* extract_data_with_llm has the five keys years, balance_sheet,
\* income_statement, cash_flow and ratios.
C6_ResultHasFiveKeys ==
    (pc = "done" /\ raised = "none") => DOMAIN result = FiveKeys

\* the first balanced object of a text: from its first "{" to the "}" that
\* closes it; braces inside values are part of the member tokens
FirstBalancedObject(text) ==
    LET lbs == {i \in DOMAIN text : text[i].k = "lb"}
        first == CHOOSE i \in lbs : \A j \in lbs : i <= j
        rbs == {i \in DOMAIN text : text[i].k = "rb" /\ i > first}
        close == CHOOSE i \in rbs : \A j \in rbs : i <= j
    IN  IF lbs = {} THEN <<>>
        ELSE IF rbs = {} THEN <<>>
        ELSE SubSeq(text, first, close)

\* C7 (as claimed): when the first balanced JSON object of the response
\* decodes to a schema-valid object, whatever prose surrounds it, the call
\* returns that object instead of falling back.
C7_FirstBalancedObjectAdopted ==
    (/\ LlmCallDone
     /\ GenerateCalls = 1
     /\ EventsOf("raise") = {}
     /\ JsonDecodes(FirstBalancedObject(response))
     /\ _validate_financial_data(JsonLoads(FirstBalancedObject(response))))
    => (/\ Ending = "return"
        /\ result = JsonLoads(FirstBalancedObject(response)))

\* the verdict the claim states for a decoded object
AcceptedByClaim(obj) ==
    /\ {"years", "balance_sheet", "income_statement", "cash_flow"} \subseteq DOMAIN obj
    /\ obj["years"].t = "list"
    /\ obj["balance_sheet"].t = "dict"
    /\ obj["income_statement"].t = "dict"
    /\ obj["cash_flow"].t = "dict"

\* the object with its ratios entry removed, or set to x
WithoutRatios(obj) == [key \in DOMAIN obj \ {"ratios"} |-> obj[key]]
WithRatios(obj, x) ==
    [key \in DOMAIN obj \cup {"ratios"} |-> IF key = "ratios" THEN x ELSE obj[key]]

\* C8: the parser accepts a decoded object exactly when it has the four
\* required keys with years a list and the three sections dicts, and
\* removing or replacing ratios never changes the verdict.
C8_ValidationVerdict ==
    (ParseOutcomes \cap {"ok", "invalid"} # {})
    => (/\ ("ok" \in ParseOutcomes) <=> AcceptedByClaim(decoded)
        /\ _validate_financial_data(decoded) <=> AcceptedByClaim(decoded)
        /\ _validate_financial_data(WithoutRatios(decoded))
              <=> _validate_financial_data(decoded)
        /\ \A x \in {PyNum(0), PyNone, EmptyDict, PyList(<<>>)} :
              _validate_financial_data(WithRatios(decoded, x))
                 <=> _validate_financial_data(decoded))

\* an object with all four required keys rejected for the type of a value
C8_Witness ==
    /\ "invalid" \in ParseOutcomes
    /\ RequiredKeys \subseteq DOMAIN decoded
    /\ decoded["years"].t = "list"
    /\ "ratios" \notin DOMAIN decoded

\* C9: on a successful LLM extraction the returned value is the decoded
\* object, and the five fields hold the entries of that object (the empty
\* dict for ratios when the object has no ratios entry).
C9_AdoptedAsIs ==
    (LlmCallDone /\ Ending = "return")
    => (/\ result = decoded
        /\ result = JsonLoads(JsonMatch(response))
        /\ self.years = result["years"]
        /\ self.balance_sheet_data = result["balance_sheet"]
        /\ self.income_statement_data = result["income_statement"]
        /\ self.cash_flow_data = result["cash_flow"]
        /\ self.ratios = DictGet(result, "ratios", EmptyDict))

\* a successful extraction from a response that wraps the object in prose
C9_Witness ==
    /\ LlmCallDone
    /\ Ending = "return"
    /\ "ratios" \in DOMAIN result
    /\ Len(response) > Len(JsonMatch(response))

\* the distinct four-digit years 19xx/20xx of the text that are not later
\* than the current year, ascending
YearsOfText(text, year) ==
    SetToSortedSeq({text[i].n : i \in {j \in DOMAIN text :
                        /\ text[j].k = "num"
                        /\ text[j].n >= 1900 /\ text[j].n <= 2099
                        /\ text[j].n <= year}})

\* C10 (as claimed): the years extract_all_data gets from _extract_years
\* are exactly the distinct standalone years 19xx/20xx of the text that
\* are not later than the current year, in ascending order.
C10_YearsOfTheText ==
    (pc = "done" /\ op = "extract_all_data")
    => result["years"].seq = YearsOfText(pdf_text, now_year)

(* ------------------------------------------------------------------ *)
(* Claims on the result of the regex path                              *)
(* ------------------------------------------------------------------ *)
\* a finished call whose result was built by extract_all_data
RegexDone ==
    /\ pc = "done"
    /\ raised = "none"
    /\ op = "extract_all_data" \/ Ending = "fallback"

ResultYears == SeqToSet(result["years"].seq)

\* the n largest elements of a set of numbers
Largest(S, n) == {x \in S : Cardinality({y \in S : y > x}) < n}

\* C11 (as claimed): the years list of extract_all_data has at most 3
\* elements, and when the text has more than 3 admissible years (19xx/20xx,
\* not later than the current year) it is the 3 largest of them.
C11_ThreeMostRecentYears ==
    (pc = "done" /\ op = "extract_all_data")
    => LET admissible == SeqToSet(YearsOfText(pdf_text, now_year))
       IN  /\ Len(result["years"].seq) <= 3
           /\ Cardinality(admissible) > 3 => ResultYears = Largest(admissible, 3)

SectionKeys == {"balance_sheet", "income_statement", "cash_flow", "ratios"}

\* C12: in every result of extract_all_data the year keys of
\* balance_sheet, income_statement, cash_flow and ratios are exactly the
\* years listed in years.
C12_YearsKeepTheirEntries ==
    RegexDone
    => \A key \in SectionKeys :
          /\ result[key].t = "dict"
          /\ DOMAIN result[key].map = {IntKey(y) : y \in ResultYears}

\* a result with a year for which the text gives no context
C12_Witness ==
    /\ pc = "done"
    /\ op = "extract_all_data"
    /\ \E y \in ResultYears : _get_year_context(pdf_text, y) = <<>>

TaxonomyOf(key) ==
    CASE key = "balance_sheet"    -> BalanceSheetTaxonomy
      [] key = "income_statement" -> IncomeStatementTaxonomy
      [] OTHER                    -> CashFlowTaxonomy

\* C13 (as claimed): for every year of years, every category and every
\* line item of the taxonomy, the section has an entry for the item (null
\* when no value was found).
C13_DenseSections ==
    RegexDone
    => \A key \in {"balance_sheet", "income_statement", "cash_flow"} :
          \A y \in ResultYears :
             /\ IntKey(y) \in DOMAIN result[key].map
             /\ \A c \in DOMAIN TaxonomyOf(key) :
                   /\ c \in DOMAIN result[key].map[IntKey(y)]
                   /\ DOMAIN result[key].map[IntKey(y)][c] = TaxonomyOf(key)[c]

\* C14 (as claimed): on "Year ended 2022. Total Current Assets 1,200. Total
\* Current Liabilities 600." (the clock not being before 2022)
\* extract_all_data yields years = [2022], Total Current Assets 1200 for
\* 2022 and Current Ratio 2 for 2022.
C14_ScenarioCurrentRatio ==
    (pc = "done" /\ op = "extract_all_data" /\ pdf_text = ScenarioText
     /\ now_year >= 2022)
    => /\ result["years"].seq = <<2022>>
       /\ IntKey(2022) \in DOMAIN result["balance_sheet"].map
       /\ _get_nested_value(result["balance_sheet"].map[IntKey(2022)],
                            <<"Current Assets", "Total Current Assets">>) = 1200
       /\ IntKey(2022) \in DOMAIN result["ratios"].map
       /\ "Current Ratio" \in DOMAIN result["ratios"].map[IntKey(2022)]["Liquidity"]
       /\ result["ratios"].map[IntKey(2022)]["Liquidity"]["Current Ratio"] = <<2, 1>>

(* ------------------------------------------------------------------ *)
(* Claims on the ratio engine                                          *)
(* ------------------------------------------------------------------ *)
\* the operands the instance holds for RatioYear, None when missing
BalanceOperand(category, item) ==
    _get_nested_value(SectionOfYear(self.balance_sheet_data, RatioYear),
                      <<category, item>>)
IncomeOperand(category, item) ==
    _get_nested_value(SectionOfYear(self.income_statement_data, RatioYear),
                      <<category, item>>)

TotalCurrentAssets         == BalanceOperand("Current Assets", "Total Current Assets")
TotalNonCurrentAssets      == BalanceOperand("Non-Current Assets", "Total Non-Current Assets")
TotalCurrentLiabilities    == BalanceOperand("Current Liabilities", "Total Current Liabilities")
TotalNonCurrentLiabilities == BalanceOperand("Non-Current Liabilities", "Total Non-Current Liabilities")
TotalEquity                == BalanceOperand("Equity", "Total Equity")
NetIncome                  == IncomeOperand("Profit", "Net Income")
TotalRevenue               == IncomeOperand("Revenue", "Total Revenue")

\* extract_all_data has run on the instance and found RatioYear
RatiosCalculated ==
    /\ pc = "done"
    /\ op = "extract_all_data"
    /\ IntKey(RatioYear) \in DOMAIN self.ratios.map

\* whether the ratios field reports the ratio for RatioYear, and its value
Reported(category, name) ==
    name \in DOMAIN self.ratios.map[IntKey(RatioYear)][category]
ReportedValue(category, name) ==
    self.ratios.map[IntKey(RatioYear)][category][name]

\* the fraction q equals n / d
IsQuotient(q, n, d) == q # <<>> /\ q[2] # 0 /\ q[1] * d = n * q[2]

\* C15: Current Ratio is Total Current Assets / Total Current Liabilities
\* when both are present and the liabilities are not 0, and is absent
\* (None) otherwise, in the ratios of extract_all_data and in the value of
\* _calculate_ratio.
C15_CurrentRatio ==
    LET defined == /\ TotalCurrentAssets # None
                   /\ TotalCurrentLiabilities # None
                   /\ TotalCurrentLiabilities # 0
    IN  /\ RatiosCalculated =>
              IF defined
              THEN /\ Reported("Liquidity", "Current Ratio")
                   /\ IsQuotient(ReportedValue("Liquidity", "Current Ratio"),
                                 TotalCurrentAssets, TotalCurrentLiabilities)
              ELSE ~Reported("Liquidity", "Current Ratio")
        /\ called_ratio = "Current Ratio" =>
              IF defined
              THEN IsQuotient(ratio_value, TotalCurrentAssets, TotalCurrentLiabilities)
              ELSE ratio_value = <<>>

\* _calculate_ratio("Current Ratio") called with assets 1000 and liabilities 0
C15_Witness ==
    /\ RatiosCalculated
    /\ called_ratio = "Current Ratio"
    /\ TotalCurrentAssets = 1000
    /\ TotalCurrentLiabilities = 0

\* C16 (as claimed): Net Profit Margin is Net Income / Total Revenue x 100
\* when both are present and the revenue is not 0, and absent (None)
\* otherwise, in the ratios of extract_all_data and in the value of
\* _calculate_ratio.
C16_NetProfitMarginPercent ==
    LET defined == /\ NetIncome # None
                   /\ TotalRevenue # None
                   /\ TotalRevenue # 0
    IN  /\ RatiosCalculated =>
              IF defined
              THEN /\ Reported("Profitability", "Net Profit Margin")
                   /\ IsQuotient(ReportedValue("Profitability", "Net Profit Margin"),
                                 NetIncome * 100, TotalRevenue)
              ELSE ~Reported("Profitability", "Net Profit Margin")
        /\ called_ratio = "Net Profit Margin" =>
              IF defined
              THEN IsQuotient(ratio_value, NetIncome * 100, TotalRevenue)
              ELSE ratio_value = <<>>

\* a missing operand counted as 0
OrZero(x) == IF x = None THEN 0 ELSE x

\* C17 (as claimed): with Total Equity present and not 0, Debt-to-Equity is
\* (Total Current Liabilities + Total Non-Current Liabilities) / Total
\* Equity, a missing liability counting as 0; with Total Equity missing or
\* 0 it is absent (None).
C17_DebtToEquity ==
    LET defined == TotalEquity # None /\ TotalEquity # 0
        debt    == OrZero(TotalCurrentLiabilities) + OrZero(TotalNonCurrentLiabilities)
    IN  /\ RatiosCalculated =>
              IF defined
              THEN /\ Reported("Solvency", "Debt-to-Equity Ratio")
                   /\ IsQuotient(ReportedValue("Solvency", "Debt-to-Equity Ratio"),
                                 debt, TotalEquity)
              ELSE ~Reported("Solvency", "Debt-to-Equity Ratio")
        /\ called_ratio = "Debt-to-Equity Ratio" =>
              IF defined
              THEN IsQuotient(ratio_value, debt, TotalEquity)
              ELSE ratio_value = <<>>

\* C18 (as claimed): in a year in which Total Current Assets or Total
\* Non-Current Assets is missing, Debt-to-Assets and Return on Assets are
\* absent; and no ratio is reported as 0 for a zero or missing denominator.
C18_AssetRatiosNeedBothAssets ==
    RatiosCalculated =>
        /\ (TotalCurrentAssets = None \/ TotalNonCurrentAssets = None) =>
              /\ ~Reported("Solvency", "Debt-to-Assets Ratio")
              /\ ~Reported("Profitability", "Return on Assets")
        /\ OrZero(TotalCurrentAssets) + OrZero(TotalNonCurrentAssets) = 0 =>
              /\ ~Reported("Solvency", "Debt-to-Assets Ratio")
              /\ ~Reported("Profitability", "Return on Assets")
        /\ OrZero(TotalEquity) = 0 =>
              /\ ~Reported("Solvency", "Debt-to-Equity Ratio")
              /\ ~Reported("Profitability", "Return on Equity")
        /\ OrZero(TotalRevenue) = 0 => ~Reported("Profitability", "Net Profit Margin")
        /\ OrZero(TotalCurrentLiabilities) = 0 => ~Reported("Liquidity", "Current Ratio")

(* ------------------------------------------------------------------ *)
(* Claims on repeated calls and on the empty text                      *)
(* ------------------------------------------------------------------ *)
\* C19: every call of extract_all_data returns what a fresh instance returns
\* on the same text and current year, whatever extract_all_data or
\* extract_data_with_llm calls came before on the instance; a call that
\* follows another extract_all_data call returns the same result again.
C19_ExtractAllDataIdempotent ==
    [][(op' = "extract_all_data" /\ pc' = "done") =>
          /\ result' = RegexResult
          /\ (op = "extract_all_data" /\ pc = "done") => result' = result]_vars

\* extract_all_data has returned on an instance whose fields an earlier
\* extract_data_with_llm call had replaced by the LLM's data
C19_Witness ==
    /\ pc = "done"
    /\ op = "extract_all_data"
    /\ prev_op = "extract_data_with_llm"
    /\ prev_ending = "return"
    /\ result["years"].seq # <<>>
    /\ \E key \in DOMAIN result["ratios"].map :
          \E category \in DOMAIN result["ratios"].map[key] :
             result["ratios"].map[key][category] # <<>>

\* C20: on the empty text, extract_all_data, and extract_data_with_llm when
\* it does not return the LLM's data, raise nothing and return years = []
\* and empty balance_sheet, income_statement, cash_flow and ratios.
C20_EmptyTextIsNotAnError ==
    (pdf_text = <<>> /\ pc = "done" /\ Ending # "return") =>
        /\ raised = "none"
        /\ DOMAIN result = FiveKeys
        /\ result["years"].seq = <<>>
        /\ \A key \in SectionKeys :
              result[key].t = "dict" /\ result[key].map = <<>>

\* extract_data_with_llm on the empty text has fallen back to the patterns
C20_Witness ==
    /\ pdf_text = <<>>
    /\ pc = "done"
    /\ op = "extract_data_with_llm"
    /\ Ending = "fallback"
    /\ result["years"].seq = <<>>

(* ------------------------------------------------------------------ *)
(* Claims on instances running side by side                            *)
(* ------------------------------------------------------------------ *)
\* how the last top-level call of an instance ended
EndingOf(inst) ==
    IF inst.events = <<>> THEN "none" ELSE inst.events[Len(inst.events)][2]

\* the result and the fields of an instance that runs alone, by the way its
\* last call ended: the patterns' result on its own text, or the object of
\* the LLM response it received itself
AsWhenAlone(inst) ==
    inst.at = "done" =>
        /\ inst.exc = "none"
        /\ IF inst.oper = "extract_all_data" \/ EndingOf(inst) = "fallback"
           THEN /\ inst.res = AsDict(ExtractAllDataOf(inst.text, now_year))
                /\ inst.fields = FieldsFromResult(ExtractAllDataOf(inst.text, now_year))
           ELSE /\ EndingOf(inst) = "return"
                /\ inst.res = JsonLoads(JsonMatch(inst.resp))
                /\ inst.fields = FieldsFromData(inst.res)

\* C21: with two instances on different documents and their calls
\* interleaved at every step, each instance that has finished a call holds
\* the result and the fields it would have running alone, each keeps its
\* own document, and the shared service is as it was configured.
C21_InstancesShareNoState ==
    /\ AsWhenAlone(InstanceState)
    /\ AsWhenAlone(other)
    /\ {pdf_text, other.text} = {PairDocs[1], PairDocs[2]}
    /\ available_providers = <<"google", "openai">>

\* both instances have finished an extract_data_with_llm call, each was
\* suspended while its call ran; one returned the LLM's object, the other
\* fell back to the patterns
C21_Witness ==
    /\ other # NoInstance
    /\ pc = "done" /\ other.at = "done"
    /\ preempted /\ other.pre
    /\ op = "extract_data_with_llm" /\ other.oper = "extract_data_with_llm"
    /\ Ending = "return"
    /\ EndingOf(other) = "fallback"
    /\ other.res["years"].seq # <<>>

(* ------------------------------------------------------------------ *)
(* Claims on the extraction prompt                                     *)
(* ------------------------------------------------------------------ *)
\* the part of a prompt that comes from the document: what follows the
\* template
DocumentPart(p) == SubSeq(p, 2, Len(p))

\* whether s is a prefix of t
IsPrefix(s, t) == Len(s) <= Len(t) /\ s = SubSeq(t, 1, Len(s))

\* ten times ten thousand characters: above any budget "on the order of
\* ten thousand"
PromptBudget == 10 * 10000

\* C22 (as claimed): the document part of the prompt extract_data_with_llm
\* builds is a prefix of the text and is never longer than the budget.
C22_PromptEmbedsBoundedPrefix ==
    prompt # NoPrompt =>
        /\ IsPrefix(DocumentPart(prompt), pdf_text)
        /\ TextLen(DocumentPart(prompt)) <= PromptBudget

(* ------------------------------------------------------------------ *)
(* Claims on the stored data                                           *)
(* ------------------------------------------------------------------ *)
\* the years of a result; none when it has no years entry
YearsOf(financial_data) ==
    IF "years" \in DOMAIN financial_data /\ financial_data["years"].t = "list"
    THEN financial_data["years"].seq ELSE <<>>

\* the categories a result holds for a year in a section, under the integer
\* or under the string form of the year, whichever the result uses
CategoriesOfYear(financial_data, section_name, year) ==
    IF section_name \notin DOMAIN financial_data THEN <<>>
    ELSE IF financial_data[section_name].t # "dict" THEN <<>>
    ELSE IF IntKey(year) \in DOMAIN financial_data[section_name].map
    THEN financial_data[section_name].map[IntKey(year)]
    ELSE IF StrKey(year) \in DOMAIN financial_data[section_name].map
    THEN financial_data[section_name].map[StrKey(year)]
    ELSE <<>>

\* the (section, category, item, value) entries of a year in a result
EntriesOfYear(financial_data, year) ==
    UNION { UNION { { <<SectionNames[k], c, i,
                        CategoriesOfYear(financial_data, SectionNames[k], year)[c][i]>> :
                         i \in DOMAIN CategoriesOfYear(financial_data, SectionNames[k], year)[c] } :
                    c \in DOMAIN CategoriesOfYear(financial_data, SectionNames[k], year) } :
            k \in 1..4 }

\* the same entries as the item rows under a FinancialYear row hold them
EntriesOfRow(year_id) ==
    { <<r.tbl, r.category, r.name, r.value>> : r \in {x \in db.items : x.year_id = year_id} }

\* the sections of the result are dicts keyed by the year values of years
KeyedByYearValues(financial_data) ==
    \A k \in 1..4 :
        /\ SectionNames[k] \in DOMAIN financial_data
        /\ financial_data[SectionNames[k]].t = "dict"
        /\ DOMAIN financial_data[SectionNames[k]].map
              = {IntKey(y) : y \in SeqToSet(YearsOf(financial_data))}

\* the FinancialYear rows the last store_financial_data call added
LastStoredRows ==
    SubSeq(db.fyears, Len(db.fyears) - Len(YearsOf(stored)) + 1, Len(db.fyears))

\* C23 (as claimed): after store_financial_data on an existing document
\* with a result whose sections are keyed by the year values of years,
\* there is one FinancialYear row per year and under it one row per
\* (category, item) of the four sections for that year.
C23_StoreFlattensResult ==
    (/\ stored # NoValue
     /\ DocumentId \in db.documents
     /\ YearsOf(stored) # <<>>
     /\ KeyedByYearValues(stored))
    => /\ outcome = "none"
       /\ Len(db.fyears) >= Len(YearsOf(stored))
       /\ \A i \in 1..Len(YearsOf(stored)) :
             /\ LastStoredRows[i].year = YearsOf(stored)[i]
             /\ LastStoredRows[i].document_id = DocumentId
             /\ EntriesOfRow(LastStoredRows[i].year_id)
                   = EntriesOfYear(stored, YearsOf(stored)[i])

\* whether the result has Total Revenue in its latest year
HasLatestRevenue(financial_data) ==
    /\ YearsOf(financial_data) # <<>>
    /\ HasItem(CategoriesOfYear(financial_data, "income_statement",
                                LatestYear(YearsOf(financial_data))),
               "Revenue", "Total Revenue")

LatestRevenue(financial_data) ==
    CategoriesOfYear(financial_data, "income_statement",
                     LatestYear(YearsOf(financial_data)))["Revenue"]["Total Revenue"]

\* C25 (as claimed): when process_financial_data has finished on an
\* existing document with a result whose latest year has Total Revenue,
\* the line-item rows of that year are stored and CompanyData.revenue is
\* that Total Revenue, on the LLM path and on the pattern path alike.
C25_ProcessStoresAndSummarises ==
    (/\ task = "processed"
     /\ DocumentId \in db.documents
     /\ HasLatestRevenue(stored))
    => /\ \E i \in DOMAIN db.fyears :
             /\ db.fyears[i].year = LatestYear(YearsOf(stored))
             /\ EntriesOfRow(db.fyears[i].year_id)
                   = EntriesOfYear(stored, LatestYear(YearsOf(stored)))
       /\ db.summary.revenue = LatestRevenue(stored)

\* the entries of a year as a loaded result has them
LoadedMatchesStored ==
    /\ YearsOf(loaded) = YearsOf(stored)
    /\ \A y \in SeqToSet(YearsOf(stored)) :
          EntriesOfYear(loaded, y) = EntriesOfYear(stored, y)

\* C28 (as claimed): for an existing document that had no stored data,
\* store_financial_data on a result of extract_all_data or of a successful
\* extract_data_with_llm does not raise, and get_financial_data_for_document
\* then returns the years of the result and, for each year, its entries.
C28_StoreLoadRoundTrip ==
    (/\ stored # NoValue
     /\ DocumentId \in db.documents
     /\ Len(db.fyears) <= Len(YearsOf(stored)))
    => /\ outcome = "none"
       /\ loaded # NotLoaded => LoadedMatchesStored

\* C29 (as claimed): the database holds at most one FinancialYear row per
\* (document_id, year), and a loaded result lists each year once.
C29_OneRowPerYear ==
    /\ \A i, j \in DOMAIN db.fyears :
          (/\ db.fyears[i].document_id = db.fyears[j].document_id
           /\ db.fyears[i].year = db.fyears[j].year) => i = j
    /\ loaded # NotLoaded =>
          \A i, j \in DOMAIN YearsOf(loaded) :
              YearsOf(loaded)[i] = YearsOf(loaded)[j] => i = j

(* ------------------------------------------------------------------ *)
(* Claims on the LLM service                                           *)
(* ------------------------------------------------------------------ *)
\* C24 (as claimed): no constructed service has a default provider other
\* than openai and google, construction with such a name having raised
\* ValueError.
C24_NoUnsupportedDefaultProvider ==
    ProviderSupported(available_providers[1])

(* ------------------------------------------------------------------ *)
(* Claims on the parser's effect on the instance                       *)
(* ------------------------------------------------------------------ *)
\* C26: a parse attempt that raises (no JSON, decode error, invalid
\* structure) leaves the five fields as they were, and the fallback that
\* follows returns, and leaves in the fields, what the patterns alone give.
C26_RejectedResponseLeavesFields ==
    [][/\ (pc = "parse" /\ pc' = "parse_failed") => self' = self
       /\ (pc = "parse_failed" /\ pc' = "done") =>
             /\ raised' = "none"
             /\ result' = RegexResult
             /\ self' = FieldsFromResult(ExtractAllDataOf(pdf_text, now_year))]_vars

\* the parser has rejected a decoded object of invalid structure on an
\* instance whose fields an earlier extract_all_data call had filled
C26_Witness ==
    /\ pc = "parse_failed"
    /\ decoded # NoValue
    /\ DOMAIN decoded # {}
    /\ prev_op = "extract_all_data"
    /\ self.years.seq # <<>>

(* ------------------------------------------------------------------ *)
(* Claims on the two implementations of the ratios                     *)
(* ------------------------------------------------------------------ *)
\* the category under which _calculate_financial_ratios stores a ratio
CategoryOfRatio(name) ==
    CASE name \in {"Current Ratio", "Quick Ratio"} -> "Liquidity"
      [] name = "Debt-to-Equity Ratio" -> "Solvency"
      [] name = "Net Profit Margin" -> "Profitability"

\* two fractions denote the same number
SameFraction(q, r) == q # <<>> /\ r # <<>> /\ q[1] * r[2] = r[1] * q[2]

\* C27 (as claimed): for Current Ratio, Quick Ratio, Debt-to-Equity Ratio
\* and Net Profit Margin, _calculate_ratio(name, year) returns the value
\* _calculate_financial_ratios stored for the name and year, and returns
\* None exactly when none is stored.
C27_RatioImplementationsAgree ==
    (/\ RatiosCalculated
     /\ called_ratio \in {"Current Ratio", "Quick Ratio", "Debt-to-Equity Ratio",
                          "Net Profit Margin"}) =>
        IF Reported(CategoryOfRatio(called_ratio), called_ratio)
        THEN SameFraction(ratio_value,
                          ReportedValue(CategoryOfRatio(called_ratio), called_ratio))
        ELSE ratio_value = <<>>

(* ------------------------------------------------------------------ *)
(* Claims on the memo background task                                  *)
(* ------------------------------------------------------------------ *)
\* the memo rows the last run of the task added
MemoRowsAdded == SubSeq(db.memos, memo_run.before + 1, Len(db.memos))

\* the row a run saves for the document
SavedMemoRow(file_path) ==
    /\ Len(MemoRowsAdded) = 1
    /\ MemoRowsAdded[1].document_id = DocumentId
    /\ MemoRowsAdded[1].memo_string.text = MemoText
    /\ MemoRowsAdded[1].file_path = file_path
    /\ MemoRowsAdded[1].llm_provider = memo_run.llm_provider

\* C30 (as claimed): _generate_and_save_memo never raises; whenever the
\* analysis step returns memo text a FinancialMemo row of the document is
\* saved, with file_path empty when the Word formatting fails; when the
\* analysis step fails no row is written.
C30_MemoSavedWheneverAnalysed ==
    memo_run # NoMemoRun =>
        /\ memo_run.raised = "none"
        /\ IF memo_run.analysis = MemoText
           THEN SavedMemoRow(IF memo_run.formatting = MemoPath THEN MemoPath ELSE NoFile)
           ELSE MemoRowsAdded = <<>>

\* C30 (amended): _generate_and_save_memo never raises; when the analysis
\* step returns memo text and db.add and db.commit succeed, a FinancialMemo
\* row of the document is saved, with file_path empty when the Word
\* formatting fails; when the analysis step or the save fails no row is
\* written.
C30_MemoSavedUnlessSaveFails ==
    memo_run # NoMemoRun =>
        /\ memo_run.raised = "none"
        /\ IF memo_run.analysis = MemoText /\ memo_run.save = "none"
           THEN SavedMemoRow(IF memo_run.formatting = MemoPath THEN MemoPath ELSE NoFile)
           ELSE MemoRowsAdded = <<>>

\* a run whose analysis returned text and whose formatting failed has saved
\* a second row for the document, without a file
C30_Witness ==
    /\ memo_run # NoMemoRun
    /\ memo_run.analysis = MemoText
    /\ memo_run.formatting = "OSError"
    /\ memo_run.save = "none"
    /\ memo_run.before = 1
    /\ Len(db.memos) = 2
    /\ db.memos[2].file_path = NoFile

====
